---- MODULE Spec2Model ----
(***************************************************************************)
(* A model of the cyclic Provider Protocol Machine (PPM) of the p-net      *)
(* PROFINET device stack, src/src/common/pf_lldp.c (the PPM part starts at *)
(* line 962 of that file).                                                 *)
(*                                                                         *)
(* The C state (pnet_t, the AR with its IOCRs and their pf_ppm_t records)  *)
(* is one record, net.  Every C function is an operator from the state     *)
(* before the call (and the inputs of the call) to the state after it, so  *)
(* that a handler is the composition of its statements, and so that the    *)
(* preemptive interleavings can run the same statements one at a time.     *)
(* net.ev is not C state: it records what the last step did (its return    *)
(* value, the frames it handed to the driver, the indications it raised).  *)
(***************************************************************************)
EXTENDS Integers, Sequences, FiniteSets, TLC

VARIABLES
  net,                       \* pnet_t, the AR and the OS objects they own
  PNET_OS_RTOS_SUPPORTED,    \* the build: TRUE preemptive OS timers, FALSE cooperative scheduler
  thr,                       \* preemptive build: the position and locals of each thread
  app                        \* the application: what it last set with success, per sub-slot

vars == <<net, PNET_OS_RTOS_SUPPORTED, thr, app>>

(***************************************************************************)
(* Bounds of the model.                                                    *)
(***************************************************************************)
MaxByte == 1      \* application bytes range over 0..MaxByte
MaxLen == 1       \* lengths and capacities the application passes: 0..MaxLen
MaxCount == 2     \* cap of ifOutErrors + ifOutOctects: the send steps of a run
MaxExtra == 1     \* cap of ppm_instance_cnt above PNET_MAX_CR, and of its wrap below 0

(***************************************************************************)
(* Program constants.                                                      *)
(***************************************************************************)
PNET_MAX_CR == 2      \* NELEMENTS(p_ar->iocrs): the IOCRs of an AR
UINT32_MAX == -1      \* as the int32_t of the same 32 bits (see Inc32)
PNET_DATA_STATUS_BIT_STATE == 0
PNET_DATA_STATUS_BIT_REDUNDANCY == 1
PNET_DATA_STATUS_BIT_DATA_VALID == 2
PNET_DATA_STATUS_BIT_PROVIDER_STATE == 4
PNET_DATA_STATUS_BIT_STATION_PROBLEM_INDICATOR == 5
OS_ETHTYPE_VLAN == 33024        \* 0x8100
OS_ETHTYPE_PROFINET == 34962    \* 0x8892

PF_PPM_STATE_W_START == "W_START"
PF_PPM_STATE_RUN == "RUN"
PNET_ERROR_CODE_1_PPM == "PPM"
PNET_ERROR_CODE_2_PPM_INVALID_STATE == "INVALID_STATE"
PNET_ERROR_CODE_2_PPM_INVALID == "INVALID"
PF_IOCR_TYPE_INPUT == "INPUT"
PF_IOCR_TYPE_OUTPUT == "OUTPUT"
PF_IOCR_TYPE_MC_PROVIDER == "MC_PROVIDER"
PF_IOCR_TYPE_MC_CONSUMER == "MC_CONSUMER"

NULL == "NULL"

TwoTo16 == 2 ^ 16
TwoTo29 == 2 ^ 29
TwoTo30 == 2 ^ 30
INT32_MAX == TwoTo30 + (TwoTo30 - 1)
INT32_MIN == (-TwoTo30) - TwoTo30

(***************************************************************************)
(* A uint32_t is held as the int32_t of the same 32 bits: 0 .. 2^31-1 as   *)
(* themselves, 2^31 .. 2^32-1 as -2^31 .. -1.  Equality with 0, 1 and      *)
(* UINT32_MAX, increment and decrement are then those of the C type.       *)
(***************************************************************************)
Inc32(v) == IF v = INT32_MAX THEN INT32_MIN ELSE v + 1
Dec32(v) == IF v = INT32_MIN THEN INT32_MAX ELSE v - 1
\* v > 0 as an unsigned number
Positive32(v) == v # 0

BIT(n) == 2 ^ n

Creps == 1..PNET_MAX_CR
Bytes == 0..MaxByte

(***************************************************************************)
(* Byte buffers.  Offsets are C offsets (from 0), sequences count from 1.  *)
(***************************************************************************)
Zeros(n) == [i \in 1..n |-> 0]

\* memcpy(&buf[off], src, Len(src)), for a src that ends inside buf
memcpy(buf, off, src) ==
  SubSeq(buf, 1, off) \o src \o SubSeq(buf, off + Len(src) + 1, Len(buf))

\* the n bytes of buf from offset off
Slice(buf, off, n) == SubSeq(buf, off + 1, off + n)

\* htons(u16) as the two bytes memcpy then stores: big-endian
htons(u16) == <<u16 \div 256, u16 % 256>>

\* C integer division and remainder, for b > 0: truncation towards zero,
\* which for a < 0 is the ceiling of a/b
CDiv(a, b) == IF a >= 0 THEN a \div b ELSE (a + (b - 1)) \div b
CRem(a, b) == a - b * CDiv(a, b)

\* conversion of an int to uint16_t
ToUint16(x) == x % TwoTo16

\* (int32_t)(t * 4) for a uint32_t t: the product is taken modulo 2^32
Times4AsInt32(t) ==
  LET r == t % TwoTo30 IN
  IF r < TwoTo29 THEN r * 4 ELSE (r - TwoTo30) * 4

(***************************************************************************)
(* The configuration of the AR: the parameters of its IOCRs, set by the    *)
(* connect request before the PPM is activated.  IOCR 1 is the Input CR    *)
(* that carries the two IODATA objects; the other IOCRs carry none.        *)
(***************************************************************************)
cm_initiator_mac_add == <<170, 187, 204, 221, 238, 1>>
cm_responder_mac_add == <<17, 34, 51, 68, 85, 102>>

data_desc(crep) ==
  IF crep = 1
  THEN << [in_use |-> TRUE, subslot_nbr |-> 1,
           data_offset |-> 0, data_length |-> 1,
           iops_offset |-> 1, iops_length |-> 1,
           iocs_offset |-> 2, iocs_length |-> 1],
          [in_use |-> TRUE, subslot_nbr |-> 2,
           data_offset |-> 3, data_length |-> 0,
           iops_offset |-> 3, iops_length |-> 1,
           iocs_offset |-> 3, iocs_length |-> 0] >>
  ELSE << >>

iocr_type(crep) ==
  CASE crep % 4 = 1 -> PF_IOCR_TYPE_INPUT
    [] crep % 4 = 2 -> PF_IOCR_TYPE_MC_PROVIDER
    [] crep % 4 = 3 -> PF_IOCR_TYPE_OUTPUT
    [] OTHER -> PF_IOCR_TYPE_MC_CONSUMER

param(crep) ==
  [iocr_type |-> iocr_type(crep),
   c_sdu_length |-> 4,
   frame_id |-> 32768 + crep,
   send_clock_factor |-> 32,
   reduction_ratio |-> 1,
   iocr_tag_header |-> [vlan_id |-> 0, iocr_user_priority |-> 6]]

in_length(crep) == param(crep).c_sdu_length

scheduler_tick_interval == 1000

\* the value os_get_current_time_us() returns where the time is not the subject;
\* the frames of SpecFrame are sent at FrameTimes
Times == {3000}

(***************************************************************************)
(* The state after construction: pnet_t and the AR are zeroed memory,      *)
(* pf_ppm_init has run.                                                    *)
(***************************************************************************)
\* the mutex objects of the OS: ppm_buf_lock is NULL or one of them
MutexIds == {"MUTEX_A", "MUTEX_B"}

NoEv ==
  [op |-> "none", crep |-> 0, sub |-> 0, ret |-> 0,
   tx |-> << >>,            \* frames handed to os_eth_send by the step
   error_ind |-> 0,         \* calls of pf_cmsu_ppm_error_ind by the step
   state_ind |-> 0,         \* calls of pf_ppm_state_ind by the step
   ub |-> "no",             \* undefined behaviour the step ran into
   rearm |-> "none",        \* the ret of the re-arm of a send step: "ok", "failed"
   len |-> << >>,           \* the lengths a set was called with
   flag |-> FALSE,          \* the bool a data status setter was called with
   before |-> << >>,        \* data_status, transfer_status an activate found
   calls |-> << >>,         \* the calls of the alarm paths, pf_diag_* and pf_alarm_* by the step
   ports |-> << >>,         \* the Port ID TLVs lldp_recv decoded
   alloc |-> "none",        \* what os_buf_alloc gave lldp_send: "ok", "null"
   out |-> << >>]           \* what the caller of a get has after the call

ppm0 ==
  [state |-> PF_PPM_STATE_W_START,
   first_transmit |-> FALSE,
   trx_cnt |-> 0,
   p_send_buffer |-> [mem |-> NULL, len |-> 0, payload |-> << >>],
   buffer_data |-> Zeros(4),
   sa |-> Zeros(6), da |-> Zeros(6),
   buffer_pos |-> 0, cycle |-> 0, transfer_status |-> 0, data_status |-> 0,
   cycle_counter_offset |-> 0, data_status_offset |-> 0,
   transfer_status_offset |-> 0, buffer_length |-> 0,
   control_interval |-> 0, compensated_control_interval |-> 0,
   send_clock_factor |-> 0, reduction_ratio |-> 0,
   ci_running |-> FALSE,
   ci_timer |-> 0,
   rt_timer |-> NULL]

(***************************************************************************)
(* The state of LLDP in pnet_t.  Strings are the sequences of their        *)
(* characters, without the terminating 0.  An AR of cmrpc_ar has its       *)
(* expected modules (exp_apis[0].modules, each with its slot_number and    *)
(* the subslot_numbers of its submodules), the diff entry the no-peer path *)
(* wrote, and its records in the diagnosis store, one for each extended    *)
(* channel error type: "absent", or the specifier of the record.           *)
(***************************************************************************)
PNET_MAX_AR == 2                  \* NELEMENTS(net->cmrpc_ar)
ArIxs == 1..PNET_MAX_AR
PNET_SLOT_DAP_IDENT == 0
PNET_SUBMOD_DAP_INTERFACE_1_PORT_0_IDENT == 32769
PF_WRT_ERROR_PORTID_MISMATCH == "PORTID_MISMATCH"
PF_WRT_ERROR_NO_PEER_DETECTED == "NO_PEER_DETECTED"
ExtErrorTypes == {PF_WRT_ERROR_PORTID_MISMATCH, PF_WRT_ERROR_NO_PEER_DETECTED}
PNET_DIAG_CH_PROP_SPEC_APPEARS == "APPEARS"
PNET_DIAG_CH_PROP_SPEC_DISAPPEARS == "DISAPPEARS"

\* a DAP module with the interface and the port, and a module of slot 1
DapModule == [slot_number |-> PNET_SLOT_DAP_IDENT,
              subslots |-> <<32768, PNET_SUBMOD_DAP_INTERFACE_1_PORT_0_IDENT>>]
IoModule == [slot_number |-> 1, subslots |-> <<1>>]

cmrpc_ar0 ==
  [in_use |-> FALSE,
   exp_modules |-> <<DapModule, IoModule>>,
   \* the numbers of valid entries of api_diffs, of the module_diffs of
   \* api_diffs[nbr_api_diffs] and of the submodule_diffs of its module
   \* entry nbr_module_diffs
   nbr_api_diffs |-> 0, nbr_module_diffs |-> 0, nbr_submodule_diffs |-> 0,
   \* at: the indices api_ix, mod_ix, sub_ix of the entry written last;
   \* writes: the times the entry at these indices has been written
   diff |-> [set |-> FALSE, slot_number |-> 0, subslot_number |-> 0, fault |-> FALSE,
             at |-> <<0, 0, 0>>, writes |-> 0],
   diag |-> [e \in ExtErrorTypes |-> "absent"]]

\* an os_timer_t: the handle (NULL before os_timer_create), the period in
\* seconds, whether it is started and when it then expires, its exit flag
os_timer0 ==
  [handle |-> NULL, us |-> 0, oneshot |-> FALSE, armed |-> FALSE, deadline |-> 0,
   exit |-> FALSE]

lldp_peer_cfg0 ==
  [PeerChassisID |-> << >>, PeerChassisIDLen |-> 0,
   PeerPortID |-> << >>, PeerPortIDLen |-> 0,
   TTL |-> 0,
   \* the records of the ORG_SPEC TLVs, as the bytes memcpy puts into them
   PeerDelay |-> [i \in 1..20 |-> 0],
   PeerPortStatus |-> [i \in 1..4 |-> 0],
   PeerMACAddr |-> [i \in 1..6 |-> 0],
   PeerMACPhyConfig |-> [i \in 1..6 |-> 0],
   peerTimer |-> os_timer0]

\* the MAC address of the device and the LLDP part of its configuration
DeviceMac == <<2, 0, 0, 0, 0, 1>>

lldp_cfg0 ==
  [chassis_id |-> << >>, port_id |-> <<112>>, ttl |-> 20,
   rtclass_2_status |-> 0, rtclass_3_status |-> 0,
   cap_aneg |-> 3, cap_phy |-> 27648, mau_type |-> 16]

net0 ==
  [ppm_instance_cnt |-> 0,
   ppm_buf_lock |-> NULL,
   interface_statistics |-> [ifOutErrors |-> 0, ifOutOctects |-> 0],
   ar |-> [err_cls |-> "none", err_code |-> "none",
           iocrs |-> [c \in Creps |->
                        [param |-> param(c),
                         ppm |-> ppm0,
                         data_avail |-> [ix \in 1..Len(data_desc(c)) |-> FALSE]]]],
   \* the OS: the timer (preemptive build) or scheduler entry (cooperative
   \* build) of each IOCR, the owner of the mutex, the clock in microseconds
   now |-> 0,
   timer |-> [c \in Creps |-> "none"],
   oneshot |-> [c \in Creps |-> TRUE],
   mutex_owner |-> [m \in MutexIds |-> "free"],
   \* LLDP: the ARs, the alias names, the peer record, the boundary, the
   \* broadcast timer
   cmrpc_ar |-> [ix \in ArIxs |-> cmrpc_ar0],
   cmina_perm_dcp_ase |-> [alias_name |-> << >>],
   cmina_temp_dcp_ase |-> [alias_name |-> << >>],
   fspm_cfg |-> [lldp_peer_cfg |-> lldp_peer_cfg0,
                 lldp_peer_req |-> [not_send_LLDP_Frames |-> FALSE],
                 eth_addr |-> DeviceMac,
                 lldp_cfg |-> lldp_cfg0],
   ipaddr |-> 0,            \* the IP address pf_cmina_get_ipaddr gives
   eth_handle |-> [lldpBroadcastTimer |-> os_timer0],
   sec |-> 0,               \* the clock in seconds, for the LLDP timers
   ev |-> NoEv]

PPM(n, crep) == n.ar.iocrs[crep].ppm

Running(n, crep) == PPM(n, crep).state = PF_PPM_STATE_RUN
Active(n) == {c \in Creps : Running(n, c)}
LockExists(n) == n.ppm_buf_lock # NULL

\* a call starts: forget what the previous step did
Call(n, op, crep, sub) ==
  [n EXCEPT !.ev = [NoEv EXCEPT !.op = op, !.crep = crep, !.sub = sub]]

Return(n, ret) == [n EXCEPT !.ev.ret = ret]

SetUb(n, what) == IF n.ev.ub = "no" THEN [n EXCEPT !.ev.ub = what] ELSE n

(***************************************************************************)
(* The OS primitives the PPM calls.  Their code is not part of the         *)
(* sources: they are modelled from the interfaces the specification lists  *)
(* (mutex.create/destroy/lock/unlock, buf.alloc/free, timer.create/start/  *)
(* destroy, scheduler.add/remove, eth.send).                               *)
(***************************************************************************)
\* a new mutex: an object that no thread holds
os_mutex_create(n) ==
  [n EXCEPT !.ppm_buf_lock = IF n.mutex_owner["MUTEX_A"] = "free"
                             THEN "MUTEX_A" ELSE "MUTEX_B"]

\* a thread that holds the mutex goes on as its holder
os_mutex_destroy(n) ==
  IF n.ppm_buf_lock = NULL THEN SetUb(n, "mutex_destroy_null")
  ELSE IF n.mutex_owner[n.ppm_buf_lock] # "free" THEN SetUb(n, "mutex_destroy_locked")
  ELSE n

\* os_mutex_lock returns at once: no thread holds the mutex
MutexFree(n) ==
  IF n.ppm_buf_lock = NULL THEN TRUE ELSE n.mutex_owner[n.ppm_buf_lock] = "free"

os_mutex_lock(n, who) ==
  IF n.ppm_buf_lock = NULL THEN SetUb(n, "mutex_lock_null")
  ELSE [n EXCEPT !.mutex_owner[n.ppm_buf_lock] = who]

\* who leaves its critical section: it unlocks the mutex ppm_buf_lock is now,
\* and holds no mutex after that (a destroyed mutex it held is gone)
os_mutex_unlock(n, who) ==
  LET m == IF n.ppm_buf_lock = NULL THEN SetUb(n, "mutex_unlock_null")
           ELSE IF n.mutex_owner[n.ppm_buf_lock] # who
           THEN SetUb(n, "mutex_unlock_not_owner")
           ELSE n
  IN [m EXCEPT !.mutex_owner =
                  [i \in MutexIds |-> IF n.mutex_owner[i] = who THEN "free"
                                      ELSE n.mutex_owner[i]]]

os_buf_alloc(len) == [mem |-> "LIVE", len |-> len, payload |-> Zeros(len)]

os_buf_free(n, crep) ==
  LET b == PPM(n, crep).p_send_buffer IN
  IF b.mem = "LIVE"
  THEN [n EXCEPT !.ar.iocrs[crep].ppm.p_send_buffer =
                    [mem |-> "FREED", len |-> 0, payload |-> << >>]]
  ELSE IF b.mem = "FREED" THEN SetUb(n, "double_free")
  ELSE n

\* the clock has reached t, and does not go back
os_get_current_time_us(n, t) == [n EXCEPT !.now = t]

\* the timer of the preemptive build, created stopped
os_timer_create(n, crep, oneshot) ==
  [n EXCEPT !.timer[crep] = "idle", !.oneshot[crep] = oneshot]

os_timer_start(n, crep) ==
  IF n.timer[crep] \in {"destroyed", "none"} THEN SetUb(n, "timer_start_destroyed")
  ELSE [n EXCEPT !.timer[crep] = "armed"]

os_timer_destroy(n, crep) ==
  IF n.timer[crep] \in {"destroyed", "none"} THEN SetUb(n, "timer_destroy_destroyed")
  ELSE [n EXCEPT !.timer[crep] = "destroyed"]

\* cooperative build: the scheduler entry of the IOCR; its handle is crep
pf_scheduler_add(n, crep) ==
  [n EXCEPT !.timer[crep] = "armed", !.ar.iocrs[crep].ppm.ci_timer = crep]

pf_scheduler_remove(n, handle) ==
  IF handle \in Creps /\ n.timer[handle] = "armed"
  THEN [n EXCEPT !.timer[handle] = "none"]
  ELSE n

\* the timer of the IOCR expires.  A one-shot timer stops, a periodic timer
\* stays armed; the scheduler drops the entry before it calls the callback.
TimerExpires(n, crep) ==
  IF PNET_OS_RTOS_SUPPORTED
  THEN (IF n.oneshot[crep] THEN [n EXCEPT !.timer[crep] = "idle"] ELSE n)
  ELSE [n EXCEPT !.timer[crep] = "none"]

Armed(n, crep) == n.timer[crep] = "armed"

pf_cmsu_ppm_error_ind(n) == [n EXCEPT !.ev.error_ind = @ + 1]

(***************************************************************************)
(* pf_ppm_init                                                             *)
(***************************************************************************)
pf_ppm_init(n) == [Call(n, "init", 0, 0) EXCEPT !.ppm_instance_cnt = 0]

(***************************************************************************)
(* pf_ppm_state_ind                                                        *)
(***************************************************************************)
pf_ppm_state_ind(n, error) ==
  LET m == [n EXCEPT !.ev.state_ind = @ + 1] IN
  IF error
  THEN pf_cmsu_ppm_error_ind(
         [m EXCEPT !.ar.err_cls = PNET_ERROR_CODE_1_PPM,
                   !.ar.err_code = PNET_ERROR_CODE_2_PPM_INVALID])
  ELSE m

pf_ppm_set_state(n, crep, state) == [n EXCEPT !.ar.iocrs[crep].ppm.state = state]

(***************************************************************************)
(* pf_ppm_init_buf: the buffer with its length, zeroed, and the 20 header  *)
(* bytes.                                                                  *)
(***************************************************************************)
pf_ppm_init_buf(p_ppm, p_buf, frame_id, p_header) ==
  LET zeroed == [p_buf EXCEPT !.len = p_ppm.buffer_length,
                              !.payload = Zeros(p_ppm.buffer_length)]
      tci == (p_header.vlan_id % 4096) + (p_header.iocr_user_priority % 8) * 8192
      b1 == memcpy(zeroed.payload, 0, p_ppm.da)
      b2 == memcpy(b1, 6, p_ppm.sa)
      b3 == memcpy(b2, 12, htons(OS_ETHTYPE_VLAN))
      b4 == memcpy(b3, 14, htons(tci))
      b5 == memcpy(b4, 16, htons(OS_ETHTYPE_PROFINET))
      b6 == memcpy(b5, 18, htons(frame_id))
  IN [zeroed EXCEPT !.payload = b6]

(***************************************************************************)
(* pf_ppm_calculate_compensated_delay, for delays and cycle times below    *)
(* 2^29, where no uint32_t operation of it wraps                           *)
(***************************************************************************)
pf_ppm_calculate_compensated_delay(wanted_delay, stack_cycle_time) ==
  LET half == stack_cycle_time \div 2
      number_of_stack_tics ==
        IF wanted_delay > stack_cycle_time + half
        THEN (wanted_delay + half) \div stack_cycle_time
        ELSE 1
  IN IF PNET_OS_RTOS_SUPPORTED
     THEN number_of_stack_tics * stack_cycle_time
     ELSE number_of_stack_tics * stack_cycle_time - half

(***************************************************************************)
(* pf_ppm_activate_req                                                     *)
(***************************************************************************)
\* lines 1316-1320: count the instance, create the mutex on the first
activate_count(n) ==
  LET cnt == n.ppm_instance_cnt
      m == [n EXCEPT !.ppm_instance_cnt = Inc32(cnt)]
  IN IF cnt = 0 THEN os_mutex_create(m) ELSE m

\* lines 1323-1327: the instance is in RUN already
activate_rejected(n) ==
  [n EXCEPT !.ar.err_cls = PNET_ERROR_CODE_1_PPM,
            !.ar.err_code = PNET_ERROR_CODE_2_PPM_INVALID_STATE]

\* the setup without the assignments of lines 1337 and 1358-1360
activate_setup_keeps_status(n, crep) ==
  LET p == PPM(n, crep)
      par == n.ar.iocrs[crep].param
      pos == 2 * 6 + 4 + 2 + 2
      ci == (par.send_clock_factor * par.reduction_ratio * 1000) \div 32
      p1 == [p EXCEPT
               !.first_transmit = FALSE,
               !.sa = cm_responder_mac_add,
               !.da = cm_initiator_mac_add,
               !.buffer_pos = pos,
               !.cycle = 0,
               !.cycle_counter_offset = pos + par.c_sdu_length,
               !.data_status_offset = pos + par.c_sdu_length + 2,
               !.transfer_status_offset = pos + par.c_sdu_length + 2 + 1,
               !.buffer_length = pos + par.c_sdu_length + 2 + 1 + 1,
               !.control_interval = ci,
               !.send_clock_factor = par.send_clock_factor,
               !.reduction_ratio = par.reduction_ratio,
               !.compensated_control_interval =
                  pf_ppm_calculate_compensated_delay(ci, scheduler_tick_interval)]
      p2 == [p1 EXCEPT
               !.p_send_buffer = pf_ppm_init_buf(p1, os_buf_alloc(p1.buffer_length),
                                                 par.frame_id, par.iocr_tag_header),
               !.state = PF_PPM_STATE_RUN,
               !.ci_running = TRUE]
  IN [n EXCEPT !.ar.iocrs[crep].ppm = p2]

\* lines 1330-1387: the record, the buffer, the state
activate_setup(n, crep) ==
  LET p == PPM(n, crep)
      par == n.ar.iocrs[crep].param
      pos == 2 * 6 + 4 + 2 + 2
      ci == (par.send_clock_factor * par.reduction_ratio * 1000) \div 32
      p1 == [p EXCEPT
               !.first_transmit = FALSE,
               !.sa = cm_responder_mac_add,
               !.da = cm_initiator_mac_add,
               !.buffer_pos = pos,
               !.cycle = 0,
               !.transfer_status = 0,
               !.cycle_counter_offset = pos + par.c_sdu_length,
               !.data_status_offset = pos + par.c_sdu_length + 2,
               !.transfer_status_offset = pos + par.c_sdu_length + 2 + 1,
               !.buffer_length = pos + par.c_sdu_length + 2 + 1 + 1,
               !.data_status = BIT(PNET_DATA_STATUS_BIT_STATE)
                               + BIT(PNET_DATA_STATUS_BIT_DATA_VALID)
                               + BIT(PNET_DATA_STATUS_BIT_STATION_PROBLEM_INDICATOR),
               !.control_interval = ci,
               !.send_clock_factor = par.send_clock_factor,
               !.reduction_ratio = par.reduction_ratio,
               !.compensated_control_interval =
                  pf_ppm_calculate_compensated_delay(ci, scheduler_tick_interval)]
      p2 == [p1 EXCEPT
               !.p_send_buffer = pf_ppm_init_buf(p1, os_buf_alloc(p1.buffer_length),
                                                 par.frame_id, par.iocr_tag_header),
               !.state = PF_PPM_STATE_RUN,
               !.ci_running = TRUE]
  IN [n EXCEPT !.ar.iocrs[crep].ppm = p2]

\* lines 1389-1423: the first timer; timer_ok is whether the OS installs it
activate_timer(n, crep, timer_ok) ==
  LET started ==
        IF PNET_OS_RTOS_SUPPORTED
        THEN IF timer_ok
             THEN os_timer_start(
                    os_timer_create(
                      [n EXCEPT !.ar.iocrs[crep].ppm.rt_timer = "TIMER"], crep, FALSE),
                    crep)
             ELSE [n EXCEPT !.ar.iocrs[crep].ppm.rt_timer = NULL]
        ELSE IF timer_ok THEN pf_scheduler_add(n, crep) ELSE n
  IN IF timer_ok
     THEN Return(started, 0)
     ELSE Return(pf_ppm_state_ind(
                   [started EXCEPT !.ar.iocrs[crep].ppm.ci_timer = UINT32_MAX], TRUE), -1)

\* the state check of line 1323 left out
pf_ppm_activate_req_unchecked(n, crep, timer_ok) ==
  activate_timer(
    activate_setup(activate_count(Call(n, "activate", crep, 0)), crep),
    crep, timer_ok)

pf_ppm_activate_req(n, crep, timer_ok) ==
  LET m == activate_count(
             [Call(n, "activate", crep, 0)
                EXCEPT !.ev.before = <<PPM(n, crep).data_status,
                                       PPM(n, crep).transfer_status>>]) IN
  IF PPM(m, crep).state = PF_PPM_STATE_RUN
  THEN Return(activate_rejected(m), -1)
  ELSE activate_timer(activate_setup(m, crep), crep, timer_ok)

(***************************************************************************)
(* pf_ppm_finish_buffer                                                    *)
(***************************************************************************)
\* line 1144: the product of the two uint16_t fields, stored in 16 bits
finish_ratio(send_clock_factor, reduction_ratio) ==
  ToUint16(send_clock_factor * reduction_ratio)

\* lines 1141-1155: the cycle counter from the time t in microseconds.
\* cycle_tmp is an int32_t, _ratio and _remainder are uint16_t.
CycleCounter(t, send_clock_factor, reduction_ratio) ==
  LET cycle_tmp == CDiv(Times4AsInt32(t), 125)
      ratio == finish_ratio(send_clock_factor, reduction_ratio)
      remainder == ToUint16(CRem(cycle_tmp, ratio))
  IN ToUint16(IF cycle_tmp < ratio THEN ratio ELSE cycle_tmp - remainder)

fb_cycle(n, crep, t) ==
  LET p == PPM(n, crep)
      m == os_get_current_time_us(n, t)
  IN IF finish_ratio(p.send_clock_factor, p.reduction_ratio) = 0
     THEN SetUb(m, "division_by_zero")
     ELSE [m EXCEPT !.ar.iocrs[crep].ppm.cycle =
                       CycleCounter(t, p.send_clock_factor, p.reduction_ratio)]

\* a write of src at offset off of the send buffer; the buffer may be freed
WriteSendBuffer(n, crep, off, src) ==
  LET m == IF PPM(n, crep).p_send_buffer.mem = "LIVE" THEN n
           ELSE SetUb(n, "send_buffer_not_live")
  IN IF off + Len(src) <= Len(PPM(m, crep).p_send_buffer.payload)
     THEN [m EXCEPT !.ar.iocrs[crep].ppm.p_send_buffer.payload = memcpy(@, off, src)]
     ELSE m

\* the payload copied to the start of the send buffer
fb_copy_at_start(n, crep, data_length) ==
  WriteSendBuffer(n, crep, 0, Slice(PPM(n, crep).buffer_data, 0, data_length))

\* the send buffer left without the payload
fb_copy_nothing(n, crep, data_length) == n

\* line 1163: the payload, copied while the mutex is held
fb_copy(n, crep, data_length) ==
  LET p == PPM(n, crep) IN
  WriteSendBuffer(n, crep, p.buffer_pos, Slice(p.buffer_data, 0, data_length))

\* the status bytes written at each other's offset
fb_status_exchanged(n, crep) ==
  LET p == PPM(n, crep)
      n1 == WriteSendBuffer(n, crep, p.cycle_counter_offset, htons(p.cycle))
      n2 == WriteSendBuffer(n1, crep, p.transfer_status_offset, <<p.data_status>>)
  IN WriteSendBuffer(n2, crep, p.data_status_offset, <<p.transfer_status>>)

\* lines 1166-1173: cycle counter, data status, transfer status
fb_status(n, crep) ==
  LET p == PPM(n, crep)
      n1 == WriteSendBuffer(n, crep, p.cycle_counter_offset, htons(p.cycle))
      n2 == WriteSendBuffer(n1, crep, p.data_status_offset, <<p.data_status>>)
  IN WriteSendBuffer(n2, crep, p.transfer_status_offset, <<p.transfer_status>>)

pf_ppm_finish_buffer(n, crep, data_length, t, who) ==
  fb_status(
    os_mutex_unlock(
      fb_copy(os_mutex_lock(fb_cycle(n, crep, t), who), crep, data_length),
      who),
    crep)

(***************************************************************************)
(* pf_ppm_send, the callback of the timer of IOCR crep                     *)
(***************************************************************************)
\* line 1249
send_entry(n, crep) == [n EXCEPT !.ar.iocrs[crep].ppm.ci_timer = UINT32_MAX]

\* lines 1257-1264: the frame goes to the driver; eth_ok is the driver's answer
send_eth(n, crep, eth_ok) ==
  LET b == PPM(n, crep).p_send_buffer
      m == IF b.mem = "LIVE" THEN n ELSE SetUb(n, "send_buffer_not_live")
      sent == [m EXCEPT !.ev.tx = Append(@, [crep |-> crep,
                                              frame |-> b.payload,
                                              ok |-> eth_ok])]
  IN IF eth_ok
     THEN [sent EXCEPT !.interface_statistics.ifOutOctects = Inc32(@)]
     ELSE [sent EXCEPT !.interface_statistics.ifOutErrors = Inc32(@)]

\* the re-arm with its error branch (lines 1286-1290) counting the frame too
send_rearm_counted(n, crep, rearm_ok) ==
  LET ret == IF PNET_OS_RTOS_SUPPORTED
             THEN (IF PPM(n, crep).rt_timer # NULL THEN 0 ELSE -1)
             ELSE (IF rearm_ok THEN 0 ELSE -1)
      m == IF ret # 0 THEN n
           ELSE IF PNET_OS_RTOS_SUPPORTED THEN os_timer_start(n, crep)
           ELSE pf_scheduler_add(n, crep)
      counted == [m EXCEPT !.ar.iocrs[crep].ppm.trx_cnt = Inc32(@),
                           !.ev.rearm = IF ret = 0 THEN "ok" ELSE "failed"]
  IN IF ret = 0
     THEN IF PPM(m, crep).first_transmit = FALSE
          THEN [pf_ppm_state_ind(counted, FALSE)
                  EXCEPT !.ar.iocrs[crep].ppm.first_transmit = TRUE]
          ELSE counted
     ELSE pf_ppm_state_ind(
            [counted EXCEPT !.ar.iocrs[crep].ppm.ci_timer = UINT32_MAX], TRUE)

\* the re-arm raising the no-error indication without the test of line 1280
send_rearm_every(n, crep, rearm_ok) ==
  LET ret == IF PNET_OS_RTOS_SUPPORTED
             THEN (IF PPM(n, crep).rt_timer # NULL THEN 0 ELSE -1)
             ELSE (IF rearm_ok THEN 0 ELSE -1)
      m == IF ret # 0 THEN n
           ELSE IF PNET_OS_RTOS_SUPPORTED THEN os_timer_start(n, crep)
           ELSE pf_scheduler_add(n, crep)
  IN IF ret = 0
     THEN [pf_ppm_state_ind([m EXCEPT !.ar.iocrs[crep].ppm.trx_cnt = Inc32(@),
                                      !.ev.rearm = "ok"], FALSE)
             EXCEPT !.ar.iocrs[crep].ppm.first_transmit = TRUE]
     ELSE pf_ppm_state_ind(
            [m EXCEPT !.ar.iocrs[crep].ppm.ci_timer = UINT32_MAX,
                      !.ev.rearm = "failed"], TRUE)

\* lines 1265-1290, after a send the driver accepted; rearm_ok is whether
\* the cooperative scheduler accepts the new entry
send_rearm(n, crep, rearm_ok) ==
  LET ret == IF PNET_OS_RTOS_SUPPORTED
             THEN (IF PPM(n, crep).rt_timer # NULL THEN 0 ELSE -1)
             ELSE (IF rearm_ok THEN 0 ELSE -1)
      m == IF ret # 0 THEN n
           ELSE IF PNET_OS_RTOS_SUPPORTED THEN os_timer_start(n, crep)
           ELSE pf_scheduler_add(n, crep)
  IN IF ret = 0
     THEN LET counted == [m EXCEPT !.ar.iocrs[crep].ppm.trx_cnt = Inc32(@),
                                   !.ev.rearm = "ok"]
          IN IF PPM(m, crep).first_transmit = FALSE
             THEN [pf_ppm_state_ind(counted, FALSE)
                     EXCEPT !.ar.iocrs[crep].ppm.first_transmit = TRUE]
             ELSE counted
     ELSE pf_ppm_state_ind(
            [m EXCEPT !.ar.iocrs[crep].ppm.ci_timer = UINT32_MAX,
                      !.ev.rearm = "failed"], TRUE)

pf_ppm_send(n, crep, t, eth_ok, rearm_ok) ==
  LET m == send_entry(n, crep) IN
  IF PPM(m, crep).ci_running = TRUE
  THEN LET sent == send_eth(
                     pf_ppm_finish_buffer(m, crep, in_length(crep), t, "cb"),
                     crep, eth_ok)
       IN IF eth_ok THEN send_rearm(sent, crep, rearm_ok) ELSE sent
  ELSE m

(***************************************************************************)
(* pf_ppm_close_req                                                        *)
(***************************************************************************)
\* line 1439
close_running(n, crep) == [n EXCEPT !.ar.iocrs[crep].ppm.ci_running = FALSE]

\* lines 1440-1455
close_timer(n, crep) ==
  LET p == PPM(n, crep) IN
  IF PNET_OS_RTOS_SUPPORTED
  THEN IF p.rt_timer # NULL
       THEN [os_timer_destroy(n, crep) EXCEPT !.ar.iocrs[crep].ppm.ci_timer = UINT32_MAX]
       ELSE n
  ELSE IF p.ci_timer # UINT32_MAX
       THEN [pf_scheduler_remove(n, p.ci_timer)
               EXCEPT !.ar.iocrs[crep].ppm.ci_timer = UINT32_MAX]
       ELSE n

\* lines 1457-1458
close_buffer(n, crep) ==
  pf_ppm_set_state(os_buf_free(n, crep), crep, PF_PPM_STATE_W_START)

\* lines 1460-1467
close_count(n, crep) ==
  LET cnt == n.ppm_instance_cnt
      m == [n EXCEPT !.ppm_instance_cnt = Dec32(cnt)]
  IN IF cnt = 1
     THEN [os_mutex_destroy(m) EXCEPT !.ppm_buf_lock = NULL,
                                      !.ar.iocrs[crep].ppm.data_status = 0]
     ELSE m

pf_ppm_close_req(n, crep) ==
  Return(
    close_count(
      close_buffer(
        close_timer(
          close_running(Call(n, "close", crep, 0), crep), crep), crep), crep), 0)

(***************************************************************************)
(* LLDP: the diagnosis store and the alarm delivery.  Their code is not    *)
(* part of the sources: pf_diag_update fails when the AR has no record of  *)
(* the extended channel error type, pf_diag_add adds the record.  Each     *)
(* call is recorded in ev.calls.                                           *)
(***************************************************************************)
LogCall(n, c) == [n EXCEPT !.ev.calls = Append(@, c)]

DiagCall(fn, ix, spec, ext, bits, ret) ==
  [fn |-> fn, ar |-> ix, spec |-> spec, ext |-> ext, bits |-> bits, ret |-> ret]

\* an alarm path starts: the alias names it finds
AlarmCall(fn, n) ==
  [fn |-> fn, ar |-> 0, spec |-> "", ext |-> "", bits |-> << >>, ret |-> 0,
   perm |-> n.cmina_perm_dcp_ase.alias_name,
   temp |-> n.cmina_temp_dcp_ase.alias_name]

LastRet(n) == n.ev.calls[Len(n.ev.calls)].ret

pf_diag_update(n, ix, spec, ext, bits) ==
  IF n.cmrpc_ar[ix].diag[ext] = "absent"
  THEN LogCall(n, DiagCall("pf_diag_update", ix, spec, ext, bits, -1))
  ELSE LogCall([n EXCEPT !.cmrpc_ar[ix].diag[ext] = spec],
               DiagCall("pf_diag_update", ix, spec, ext, bits, 0))

pf_diag_add(n, ix, spec, ext, bits) ==
  LogCall([n EXCEPT !.cmrpc_ar[ix].diag[ext] = spec],
          DiagCall("pf_diag_add", ix, spec, ext, bits, 0))

pf_alarm_send_port_change_notification(n, ix, spec, ext, bits) ==
  LogCall(n, DiagCall("pf_alarm_send_port_change_notification", ix, spec, ext, bits, 0))

\* lines 354-384 with the add of lines 367-380 outside the if of line 364
update_or_add_always_adds(n, ix, spec, ext, bits) ==
  pf_diag_add(pf_diag_update(n, ix, spec, ext, bits), ix, spec, ext, bits)

\* lines 354-384 and 521-560: update, and add if the update failed
update_or_add(n, ix, spec, ext, bits) ==
  LET u == pf_diag_update(n, ix, spec, ext, bits)
  IN  IF LastRet(u) # 0 THEN pf_diag_add(u, ix, spec, ext, bits) ELSE u

(***************************************************************************)
(* pf_lldp_send_remote_mismatch_alarm, lines 299-427                       *)
(***************************************************************************)
AllTrue == <<TRUE, TRUE, TRUE>>      \* channel, submodule and AR diagnosis
AllFalse == <<FALSE, FALSE, FALSE>>

\* lines 313-411 with the branch of lines 320-325 for equal alias names too
mismatch_ar_always_appears(n, ix) ==
  pf_alarm_send_port_change_notification(
    update_or_add(n, ix, PNET_DIAG_CH_PROP_SPEC_APPEARS,
                  PF_WRT_ERROR_PORTID_MISMATCH, AllTrue),
    ix, PNET_DIAG_CH_PROP_SPEC_APPEARS, PF_WRT_ERROR_PORTID_MISMATCH, AllTrue)

\* lines 313-411: the body of the loop for an AR in use
mismatch_ar(n, ix) ==
  LET appears == n.cmina_perm_dcp_ase.alias_name # n.cmina_temp_dcp_ase.alias_name
      d == IF appears
           THEN update_or_add(n, ix, PNET_DIAG_CH_PROP_SPEC_APPEARS,
                              PF_WRT_ERROR_PORTID_MISMATCH, AllTrue)
           ELSE pf_diag_update(n, ix, PNET_DIAG_CH_PROP_SPEC_DISAPPEARS,
                               PF_WRT_ERROR_PORTID_MISMATCH, AllFalse)
  IN  pf_alarm_send_port_change_notification(
        d, ix,
        IF appears THEN PNET_DIAG_CH_PROP_SPEC_APPEARS
        ELSE PNET_DIAG_CH_PROP_SPEC_DISAPPEARS,
        PF_WRT_ERROR_PORTID_MISMATCH,
        IF appears THEN AllTrue ELSE AllFalse)

\* lines 416-425 left out
mismatch_copy_never(n) == n

\* lines 416-425: strncpy and the terminating 0
mismatch_copy(n) ==
  [n EXCEPT !.cmina_perm_dcp_ase.alias_name = n.cmina_temp_dcp_ase.alias_name]

RECURSIVE mismatch_from(_, _, _)
mismatch_from(n, ix, alarm_sent) ==
  IF ix > PNET_MAX_AR
  THEN IF alarm_sent THEN n ELSE mismatch_copy(n)
  ELSE IF n.cmrpc_ar[ix].in_use = TRUE
       THEN mismatch_from(mismatch_ar(n, ix), ix + 1, TRUE)
       ELSE mismatch_from(n, ix + 1, alarm_sent)

pf_lldp_send_remote_mismatch_alarm(n) ==
  mismatch_from(
    LogCall(n, AlarmCall("pf_lldp_send_remote_mismatch_alarm", n)), 1, FALSE)

(***************************************************************************)
(* pf_lldp_send_port_datachange_alarm, lines 429-570.  bFound is set for   *)
(* the first AR whose submodule is found and is not cleared for the next   *)
(* AR: with bFound set, the loop over the modules ends after the first     *)
(* module (line 562).                                                      *)
(***************************************************************************)
ModuleMatches(m) ==
  /\ m.slot_number = PNET_SLOT_DAP_IDENT
  /\ \E j \in 1..Len(m.subslots) :
       m.subslots[j] = PNET_SUBMOD_DAP_INTERFACE_1_PORT_0_IDENT

\* the modules the loops of lines 453-566 look at
ModulesSearched(ar, bFound) ==
  IF bFound /\ Len(ar.exp_modules) > 1 THEN {1} ELSE 1..Len(ar.exp_modules)

ModuleFound(ar, bFound) ==
  {i \in ModulesSearched(ar, bFound) : ModuleMatches(ar.exp_modules[i])} # {}

\* lines 447-483: the entry at the indices the counters give; the counters
\* are read and are not written
datachange_diff(ar) ==
  LET at == <<ar.nbr_api_diffs, ar.nbr_module_diffs, ar.nbr_submodule_diffs>>
  IN  [set |-> TRUE, slot_number |-> PNET_SLOT_DAP_IDENT,
       subslot_number |-> PNET_SUBMOD_DAP_INTERFACE_1_PORT_0_IDENT,
       fault |-> TRUE,
       at |-> at,
       writes |-> IF ar.diff.set /\ ar.diff.at = at THEN ar.diff.writes + 1 ELSE 1]

\* lines 461-557: the diff entry, the diagnosis and the notification
datachange_ar(n, ix) ==
  pf_alarm_send_port_change_notification(
    update_or_add(
      [n EXCEPT !.cmrpc_ar[ix].diff = datachange_diff(n.cmrpc_ar[ix])],
      ix, PNET_DIAG_CH_PROP_SPEC_APPEARS, PF_WRT_ERROR_NO_PEER_DETECTED, AllTrue),
    ix, PNET_DIAG_CH_PROP_SPEC_APPEARS, PF_WRT_ERROR_NO_PEER_DETECTED, AllTrue)

RECURSIVE datachange_from(_, _, _)
datachange_from(n, ix, bFound) ==
  IF ix > PNET_MAX_AR THEN n
  ELSE IF n.cmrpc_ar[ix].in_use = TRUE /\ ModuleFound(n.cmrpc_ar[ix], bFound)
       THEN datachange_from(datachange_ar(n, ix), ix + 1, TRUE)
       ELSE datachange_from(n, ix + 1, bFound)

pf_lldp_send_port_datachange_alarm(n) == datachange_from(n, 1, FALSE)

(***************************************************************************)
(* The OS timers of LLDP.  Their code is not part of the sources: a timer  *)
(* that is started expires once its period has passed.                     *)
(***************************************************************************)
TICK_INTERVAL_SEC == 1000000

timer_create(us, oneshot) ==
  [os_timer0 EXCEPT !.handle = "TIMER", !.us = us, !.oneshot = oneshot]

timer_start(timer, sec) ==
  [timer EXCEPT !.armed = TRUE, !.deadline = sec + timer.us \div TICK_INTERVAL_SEC]

timer_stop(timer) == [timer EXCEPT !.armed = FALSE]

(***************************************************************************)
(* pf_lldp_create_peer_timer, lines 581-608, in the preemptive build (the  *)
(* branch of the cooperative build refers to names that are not declared). *)
(***************************************************************************)
pf_lldp_create_peer_timer(n, timer_ok) ==
  IF timer_ok
  THEN [n EXCEPT !.fspm_cfg.lldp_peer_cfg.peerTimer =
          timer_start(
            timer_create(n.fspm_cfg.lldp_peer_cfg.TTL * TICK_INTERVAL_SEC, TRUE), n.sec)]
  ELSE n

(***************************************************************************)
(* pf_lldp_tlv_header, lines 74-81: the type and the length of a TLV, as   *)
(* the two bytes pf_put_uint16 writes, big-endian.  len is a uint8_t.      *)
(***************************************************************************)
ToUint8(x) == x % 256

pf_lldp_tlv_header(typ, len) ==
  htons(ToUint16(typ * 512 + (ToUint8(len) % 512)))

(***************************************************************************)
(* pf_lldp_recv, lines 779-958.  The frame is the sequence of its bytes,   *)
(* pData the offset of the payload of the TLV at hand, alias the local     *)
(* _Alias.                                                                 *)
(***************************************************************************)
LLDP_TYPE_END == 0
LLDP_TYPE_CHASSIS_ID == 1
LLDP_TYPE_PORT_ID == 2
LLDP_TYPE_TTL == 3
LLDP_TYPE_MANAGEMENT == 8
LLDP_TYPE_ORG_SPEC == 127
LLDP_TYPE_SHIFT == 9
LLDP_SUBTYPE_CHASSIS_ID_MAC == 4
LLDP_SUBTYPE_CHASSIS_ID_NAME == 7
LLDP_SUBTYPE_PORT_ID_LOCAL == 7
LLDP_PNIO_SUBTYPE_PORT_STATUS == 2
LLDP_PNIO_SUBTYPE_INTERFACE_MAC == 5
LLDP_IEEE_SUBTYPE_MACPHY_CONFIG == 1
OS_ETHTYPE_LLDP == 35020           \* 0x88CC
LLDP_LENGTH_MASK == 511
Dot == 46                          \* '.'

ByteAt(frame, off) == frame[off + 1]
GetUint16(frame, off) == ByteAt(frame, off) * 256 + ByteAt(frame, off + 1)

\* the C string in an array of characters: the characters before the first 0
CStr(a) ==
  LET zeros == {i \in 1..Len(a) : a[i] = 0}
  IN  IF zeros = {} THEN a
      ELSE SubSeq(a, 1, (CHOOSE i \in zeros : \A j \in zeros : i <= j) - 1)

Prefix(a, k) == IF k < Len(a) THEN SubSeq(a, 1, k) ELSE a

HasDot(str) == \E i \in 1..Len(str) : str[i] = Dot

\* lines 802-808
recv_chassis_id(n, frame, pData, len) ==
  [n EXCEPT !.fspm_cfg.lldp_peer_cfg.PeerChassisIDLen = len - 1,
            !.fspm_cfg.lldp_peer_cfg.PeerChassisID = Slice(frame, pData + 1, len - 1)]

\* the else branch of lines 857-864 for a Port ID with a dot too
recv_alias_always_joined(peer, alias) ==
  Prefix(alias \o CStr(Prefix(peer.PeerPortID, peer.PeerPortIDLen)) \o <<Dot>>
           \o CStr(Prefix(peer.PeerChassisID, peer.PeerChassisIDLen)),
         peer.PeerPortIDLen + peer.PeerChassisIDLen + 1)

\* lines 850-864: the alias of the peer record, from the _Alias of before
recv_alias(peer, alias) ==
  IF HasDot(CStr(peer.PeerPortID))
  THEN CStr(Prefix(peer.PeerPortID, peer.PeerPortIDLen))
  ELSE Prefix(alias \o CStr(Prefix(peer.PeerPortID, peer.PeerPortIDLen)) \o <<Dot>>
                \o CStr(Prefix(peer.PeerChassisID, peer.PeerChassisIDLen)),
              peer.PeerPortIDLen + peer.PeerChassisIDLen + 1)

\* lines 866-879 with the alarm path for every Port ID
recv_store_alias_always(n, alias) ==
  pf_lldp_send_remote_mismatch_alarm(
    [n EXCEPT !.cmina_temp_dcp_ase.alias_name = alias])

\* lines 866-879: the alias is new
recv_store_alias(n, alias) ==
  IF alias # n.cmina_temp_dcp_ase.alias_name
  THEN pf_lldp_send_remote_mismatch_alarm(
         [n EXCEPT !.cmina_temp_dcp_ase.alias_name = alias])
  ELSE n

\* lines 812-880; the result is the state and the _Alias
recv_port_id(n, frame, pData, len, alias) ==
  LET m == [n EXCEPT !.fspm_cfg.lldp_peer_cfg.PeerPortIDLen = len - 1,
                     !.fspm_cfg.lldp_peer_cfg.PeerPortID = Slice(frame, pData + 1, len - 1)]
      a == recv_alias(m.fspm_cfg.lldp_peer_cfg, alias)
      r == recv_store_alias(m, a)
      \* the alias computed, the temporary alias before and after, the
      \* calls recorded before and after
      seen == [alias |-> a, temp |-> n.cmina_temp_dcp_ase.alias_name,
               after |-> r.cmina_temp_dcp_ase.alias_name,
               at |-> Len(n.ev.calls), to |-> Len(r.ev.calls),
               \* the Port ID decoded and the chassis ID of the peer record
               port |-> m.fspm_cfg.lldp_peer_cfg.PeerPortID,
               chassis |-> m.fspm_cfg.lldp_peer_cfg.PeerChassisID]
  IN  [n |-> [r EXCEPT !.ev.ports = Append(@, seen)], alias |-> a]

\* the two bytes of the payload
recv_ttl_value_16(frame, pData) == GetUint16(frame, pData)

\* line 882: the second byte of the payload
recv_ttl_value(frame, pData) == ByteAt(frame, pData + 1)

\* lines 881-905
recv_ttl(n, frame, pData, timer_ok) ==
  LET m == [n EXCEPT !.fspm_cfg.lldp_peer_cfg.TTL = recv_ttl_value(frame, pData)]
      timer == m.fspm_cfg.lldp_peer_cfg.peerTimer
  IN  IF timer.handle = NULL
      THEN pf_lldp_create_peer_timer(m, timer_ok)
      ELSE [m EXCEPT !.fspm_cfg.lldp_peer_cfg.peerTimer =
              timer_start(
                [timer_stop(timer) EXCEPT
                   !.us = m.fspm_cfg.lldp_peer_cfg.TTL * TICK_INTERVAL_SEC],
                m.sec)]

\* the organisation codes and the subtypes of the ORG_SPEC TLVs
LLDP_PROFIBUS_CODE == <<0, 14, 207>>
LLDP_IEEE_8023_CODE == <<0, 18, 15>>
LLDP_PROFIBUS_SUBTYPE_DELAY_VALUES == 1
LLDP_PROFIBUS_SUBTYPE_PORT_STATUS == 2
LLDP_PROFIBUS_SUBTYPE_CHASSIS_MAC == 5

\* lines 907-944: memcpy of sizeof(the record) bytes, whatever the TLV declares
recv_org_spec(n, frame, pData) ==
  LET peer == n.fspm_cfg.lldp_peer_cfg
      sub == ByteAt(frame, pData + 3)
  IN  IF Slice(frame, pData, 3) = LLDP_PROFIBUS_CODE
      THEN CASE sub = LLDP_PROFIBUS_SUBTYPE_DELAY_VALUES ->
                  [n EXCEPT !.fspm_cfg.lldp_peer_cfg.PeerDelay =
                              Slice(frame, pData + 4, Len(peer.PeerDelay))]
             [] sub = LLDP_PROFIBUS_SUBTYPE_PORT_STATUS ->
                  [n EXCEPT !.fspm_cfg.lldp_peer_cfg.PeerPortStatus =
                              Slice(frame, pData + 4, Len(peer.PeerPortStatus))]
             [] sub = LLDP_PROFIBUS_SUBTYPE_CHASSIS_MAC ->
                  [n EXCEPT !.fspm_cfg.lldp_peer_cfg.PeerMACAddr =
                              Slice(frame, pData + 4, Len(peer.PeerMACAddr))]
             [] OTHER -> n
      ELSE IF Slice(frame, pData, 3) = LLDP_IEEE_8023_CODE
                /\ sub = LLDP_IEEE_SUBTYPE_MACPHY_CONFIG
           THEN [n EXCEPT !.fspm_cfg.lldp_peer_cfg.PeerMACPhyConfig =
                            Slice(frame, pData + 3, Len(peer.PeerMACPhyConfig))]
           ELSE n

\* the switch of lines 799-947 for one TLV
recv_tlv(n, frame, pData, type, len, alias, timer_ok) ==
  CASE type = LLDP_TYPE_CHASSIS_ID ->
         [n |-> recv_chassis_id(n, frame, pData, len), alias |-> alias]
    [] type = LLDP_TYPE_PORT_ID -> recv_port_id(n, frame, pData, len, alias)
    [] type = LLDP_TYPE_TTL ->
         [n |-> recv_ttl(n, frame, pData, timer_ok), alias |-> alias]
    [] type = LLDP_TYPE_ORG_SPEC ->
         [n |-> recv_org_spec(n, frame, pData), alias |-> alias]
    [] OTHER -> [n |-> n, alias |-> alias]

\* The function has the frame buffer and never its length (p_frame_buf->len
\* is not read): a read at or after the end of the frame finds bytes that
\* are not of the frame.  The offset after the last byte the switch reads
\* for the TLV at pData; -1: the memcpy of lines 819, 829 and 839 has the
\* length 0 - 1, which as an unsigned size is 255 bytes or more.
recv_reads(n, frame, pData, type, len) ==
  LET peer == n.fspm_cfg.lldp_peer_cfg IN
  CASE type \in {LLDP_TYPE_CHASSIS_ID, LLDP_TYPE_PORT_ID} ->
         IF len = 0 THEN -1 ELSE pData + len
    [] type = LLDP_TYPE_TTL -> pData + 2
    [] type = LLDP_TYPE_ORG_SPEC ->
         IF pData + 4 > Len(frame) THEN pData + 4
         ELSE IF Slice(frame, pData, 3) = LLDP_PROFIBUS_CODE
         THEN CASE ByteAt(frame, pData + 3) = LLDP_PROFIBUS_SUBTYPE_DELAY_VALUES ->
                     pData + 4 + Len(peer.PeerDelay)
                [] ByteAt(frame, pData + 3) = LLDP_PROFIBUS_SUBTYPE_PORT_STATUS ->
                     pData + 4 + Len(peer.PeerPortStatus)
                [] ByteAt(frame, pData + 3) = LLDP_PROFIBUS_SUBTYPE_CHASSIS_MAC ->
                     pData + 4 + Len(peer.PeerMACAddr)
                [] OTHER -> pData + 4
         ELSE IF Slice(frame, pData, 3) = LLDP_IEEE_8023_CODE
                 /\ ByteAt(frame, pData + 3) = LLDP_IEEE_SUBTYPE_MACPHY_CONFIG
         THEN pData + 3 + Len(peer.PeerMACPhyConfig)
         ELSE pData + 4
    [] OTHER -> pData

RECURSIVE recv_tlvs(_, _, _, _, _)
recv_tlvs(n, frame, pData, alias, timer_ok) ==
  IF pData > Len(frame) THEN SetUb(n, "header_past_frame")
  ELSE
  LET tvData == GetUint16(frame, pData - 2)
      type == tvData \div (2 ^ LLDP_TYPE_SHIFT)
      len == tvData % (LLDP_LENGTH_MASK + 1)
  IN  IF type = LLDP_TYPE_END THEN n
      ELSE IF recv_reads(n, frame, pData, type, len) = -1
      THEN SetUb(n, "copy_of_negative_length")
      ELSE IF recv_reads(n, frame, pData, type, len) > Len(frame)
      THEN SetUb(n, "payload_past_frame")
      ELSE LET r == recv_tlv(n, frame, pData, type, len, alias, timer_ok)
           IN  recv_tlvs(r.n, frame, pData + len + 2, r.alias, timer_ok)

pf_lldp_recv(n, frame, frame_pos, timer_ok) ==
  recv_tlvs([Call(n, "lldp_recv", 0, 0) EXCEPT !.ev.len = <<frame_pos>>],
            frame, frame_pos + 2, << >>, timer_ok)

\* lines 573-579: the peer timer has expired
pf_lldp_peer_timeout_cb(n) ==
  pf_lldp_send_port_datachange_alarm(
    LogCall([Call(n, "peer_timeout", 0, 0) EXCEPT
               !.fspm_cfg.lldp_peer_cfg.peerTimer.armed = FALSE],
            AlarmCall("pf_lldp_send_port_datachange_alarm", n)))

(***************************************************************************)
(* The TLVs of the frame lldp_send builds, lines 74-297, as the bytes each *)
(* function appends to the buffer.  The names in the configuration are C   *)
(* strings, here the sequences of their characters.                        *)
(***************************************************************************)
lldp_dst_addr == <<1, 128, 194, 0, 0, 14>>

\* pf_put_uint32(true, ...): big-endian
put_uint32(v) ==
  <<(v \div 16777216) % 256, (v \div 65536) % 256, (v \div 256) % 256, v % 256>>

\* lines 93-102
pf_lldp_pnio_header(len) ==
  pf_lldp_tlv_header(LLDP_TYPE_ORG_SPEC, ToUint8(len) + 3) \o <<0, 14, 207>>

\* lines 114-123
pf_lldp_ieee_header(len) ==
  pf_lldp_tlv_header(LLDP_TYPE_ORG_SPEC, ToUint8(len) + 3) \o <<0, 18, 15>>

\* lines 136-161
lldp_add_chassis_id_tlv(p_cfg) ==
  LET len == ToUint16(Len(p_cfg.lldp_cfg.chassis_id))
  IN  IF len = 0
      THEN pf_lldp_tlv_header(LLDP_TYPE_CHASSIS_ID, 1 + Len(p_cfg.eth_addr))
           \o <<LLDP_SUBTYPE_CHASSIS_ID_MAC>> \o p_cfg.eth_addr
      ELSE pf_lldp_tlv_header(LLDP_TYPE_CHASSIS_ID, 1 + len)
           \o <<LLDP_SUBTYPE_CHASSIS_ID_NAME>> \o p_cfg.lldp_cfg.chassis_id

\* lines 170-183
lldp_add_port_id_tlv(p_cfg) ==
  LET len == ToUint16(Len(p_cfg.lldp_cfg.port_id))
  IN  pf_lldp_tlv_header(LLDP_TYPE_PORT_ID, 1 + len)
      \o <<LLDP_SUBTYPE_PORT_ID_LOCAL>> \o p_cfg.lldp_cfg.port_id

\* lines 192-199
lldp_add_ttl_tlv(p_cfg) ==
  pf_lldp_tlv_header(LLDP_TYPE_TTL, 2) \o htons(ToUint16(p_cfg.lldp_cfg.ttl))

\* lines 210-221 with a header that declares one byte less
lldp_add_port_status_short(p_cfg) ==
  pf_lldp_pnio_header(4)
  \o <<LLDP_PNIO_SUBTYPE_PORT_STATUS>>
  \o htons(ToUint16(p_cfg.lldp_cfg.rtclass_2_status))
  \o htons(ToUint16(p_cfg.lldp_cfg.rtclass_3_status))

\* lines 210-221
lldp_add_port_status(p_cfg) ==
  pf_lldp_pnio_header(5)
  \o <<LLDP_PNIO_SUBTYPE_PORT_STATUS>>
  \o htons(ToUint16(p_cfg.lldp_cfg.rtclass_2_status))
  \o htons(ToUint16(p_cfg.lldp_cfg.rtclass_3_status))

\* lines 232-242
lldp_add_chassis_mac(p_cfg) ==
  pf_lldp_pnio_header(1 + Len(p_cfg.eth_addr))
  \o <<LLDP_PNIO_SUBTYPE_INTERFACE_MAC>> \o p_cfg.eth_addr

\* lines 255-267
lldp_add_ieee_mac_phy(p_cfg) ==
  pf_lldp_ieee_header(6)
  \o <<LLDP_IEEE_SUBTYPE_MACPHY_CONFIG, ToUint8(p_cfg.lldp_cfg.cap_aneg)>>
  \o htons(ToUint16(p_cfg.lldp_cfg.cap_phy))
  \o htons(ToUint16(p_cfg.lldp_cfg.mau_type))

\* lines 280-297: IPv4 address, interface subtype and number, no OID
lldp_add_management(n) ==
  pf_lldp_tlv_header(LLDP_TYPE_MANAGEMENT, 12)
  \o <<1 + 4, 1>> \o put_uint32(n.ipaddr) \o <<1>> \o put_uint32(0) \o <<0>>

\* lines 702-727: the frame
lldp_frame(n) ==
  lldp_dst_addr \o n.fspm_cfg.eth_addr \o htons(OS_ETHTYPE_LLDP)
  \o lldp_add_chassis_id_tlv(n.fspm_cfg)
  \o lldp_add_port_id_tlv(n.fspm_cfg)
  \o lldp_add_ttl_tlv(n.fspm_cfg)
  \o lldp_add_port_status(n.fspm_cfg)
  \o lldp_add_chassis_mac(n.fspm_cfg)
  \o lldp_add_ieee_mac_phy(n.fspm_cfg)
  \o lldp_add_management(n)
  \o pf_lldp_tlv_header(LLDP_TYPE_END, 0)

NotSend(n) == n.fspm_cfg.lldp_peer_req.not_send_LLDP_Frames

(***************************************************************************)
(* pf_lldp_send, lines 634-757.  alloc_ok: os_buf_alloc gave a buffer with *)
(* a payload; eth_ok: the answer of os_eth_lldp_send.                      *)
(***************************************************************************)
pf_lldp_send(n, alloc_ok, eth_ok) ==
  IF NotSend(n) THEN n
  ELSE IF ~alloc_ok THEN [n EXCEPT !.ev.alloc = "null"]
  ELSE LET sent == [n EXCEPT !.ev.alloc = "ok",
                             !.ev.tx = Append(@, [crep |-> 0,
                                                  frame |-> lldp_frame(n),
                                                  ok |-> eth_ok])]
       IN  IF eth_ok
           THEN [sent EXCEPT !.interface_statistics.ifOutOctects = Inc32(@)]
           ELSE [sent EXCEPT !.interface_statistics.ifOutErrors = Inc32(@)]

BroadcastTimer(n) == n.eth_handle.lldpBroadcastTimer

\* lines 615-631 with the branch of lines 621-624 whatever the boundary says
pf_lldp_timer_cb_always_restarts(n, alloc_ok, eth_ok) ==
  [pf_lldp_send(n, alloc_ok, eth_ok) EXCEPT
     !.eth_handle.lldpBroadcastTimer = timer_start(@, n.sec)]

\* lines 615-631, in the preemptive build
pf_lldp_timer_cb(n, alloc_ok, eth_ok) ==
  IF ~NotSend(n)
  THEN [pf_lldp_send(n, alloc_ok, eth_ok) EXCEPT
          !.eth_handle.lldpBroadcastTimer = timer_start(@, n.sec)]
  ELSE [n EXCEPT !.eth_handle.lldpBroadcastTimer.exit = TRUE]

\* the period of the broadcast, in microseconds
LLDP_BROADCAST_RATE == 5 * TICK_INTERVAL_SEC

\* lines 759-776, in the preemptive build; timer_ok: os_timer_create gave a timer
pf_lldp_start_broadcast(n, timer_ok) ==
  IF timer_ok
  THEN [n EXCEPT !.eth_handle.lldpBroadcastTimer =
          timer_start(timer_create(LLDP_BROADCAST_RATE, FALSE), n.sec)]
  ELSE [n EXCEPT !.eth_handle.lldpBroadcastTimer = os_timer0]

(***************************************************************************)
(* The data status setters: one bit of the uint8_t data_status each.       *)
(***************************************************************************)
HasBit(v, b) == (v \div BIT(b)) % 2 = 1
\* v | BIT(b) and v & ~BIT(b)
OrBit(v, b) == IF HasBit(v, b) THEN v ELSE v + BIT(b)
AndNotBit(v, b) == IF HasBit(v, b) THEN v - BIT(b) ELSE v

SetStatusBit(n, crep, b, on) ==
  [n EXCEPT !.ar.iocrs[crep].ppm.data_status =
              IF on THEN OrBit(@, b) ELSE AndNotBit(@, b)]

\* a setter starts: the call and its bool
CallFlag(n, op, crep, flag) == [Call(n, op, crep, 0) EXCEPT !.ev.flag = flag]

pf_ppm_set_data_status_state(n, crep, primary) ==
  Return(SetStatusBit(CallFlag(n, "set_state", crep, primary), crep,
                      PNET_DATA_STATUS_BIT_STATE, primary), 0)

pf_ppm_set_data_status_redundancy(n, crep, redundant) ==
  Return(SetStatusBit(CallFlag(n, "set_redundancy", crep, redundant), crep,
                      PNET_DATA_STATUS_BIT_REDUNDANCY, redundant), 0)

pf_ppm_set_data_status_provider(n, crep, run) ==
  Return(SetStatusBit(CallFlag(n, "set_provider", crep, run), crep,
                      PNET_DATA_STATUS_BIT_PROVIDER_STATE, run), 0)

\* lines 1868-1881 without the test of the type of the IOCR
RECURSIVE set_problem_indicator_every(_, _, _)
set_problem_indicator_every(n, ix, problem_indicator) ==
  IF ix > PNET_MAX_CR THEN n
  ELSE set_problem_indicator_every(SetStatusBit(n, ix, 5, ~problem_indicator),
                                   ix + 1, problem_indicator)

\* every Input CR and multicast provider CR of the AR: bit 5 is 0 for a
\* problem, 1 for none
RECURSIVE set_problem_indicator_from(_, _, _)
set_problem_indicator_from(n, ix, problem_indicator) ==
  IF ix > PNET_MAX_CR THEN n
  ELSE set_problem_indicator_from(
         IF n.ar.iocrs[ix].param.iocr_type \in {PF_IOCR_TYPE_INPUT, PF_IOCR_TYPE_MC_PROVIDER}
         THEN SetStatusBit(n, ix, 5, ~problem_indicator)
         ELSE n,
         ix + 1, problem_indicator)

pf_ppm_set_problem_indicator(n, problem_indicator) ==
  set_problem_indicator_from(
    CallFlag(n, "set_problem_indicator", 0, problem_indicator), 1, problem_indicator)

(***************************************************************************)
(* pf_ppm_get_ar_iocr_desc: the first Input CR or multicast provider CR    *)
(* of the AR with a descriptor in use for the sub-slot.  The model has one *)
(* API and one slot; a sub-slot is the sub-slot number.  The result is the *)
(* return value with the IOCR (crep) and the index of the descriptor (ix). *)
(***************************************************************************)
SubslotNbrs == {1, 2, 3}

\* sub-slots 1 and 2 are plugged and owned by the AR, sub-slot 3 is unknown
pf_cmdev_get_subslot_full(subslot_nbr) == IF subslot_nbr \in {1, 2} THEN 0 ELSE -1

DescMatches(crep, ix, subslot_nbr) ==
  /\ iocr_type(crep) \in {PF_IOCR_TYPE_INPUT, PF_IOCR_TYPE_MC_PROVIDER}
  /\ data_desc(crep)[ix].in_use = TRUE
  /\ data_desc(crep)[ix].subslot_nbr = subslot_nbr

pf_ppm_get_ar_iocr_desc(subslot_nbr) ==
  LET hits == UNION {{[crep |-> c, ix |-> i] :
                        i \in {j \in 1..Len(data_desc(c)) :
                                 DescMatches(c, j, subslot_nbr)}} : c \in Creps}
      first == CHOOSE h \in hits :
                 \A g \in hits : h.crep < g.crep \/ (h.crep = g.crep /\ h.ix <= g.ix)
  IN IF pf_cmdev_get_subslot_full(subslot_nbr) = 0 /\ hits # {}
     THEN [ret |-> 0, crep |-> first.crep, ix |-> first.ix]
     ELSE [ret |-> -1, crep |-> 0, ix |-> 0]

\* the descriptor a successful lookup d found
IoData(d) == data_desc(d.crep)[d.ix]

\* the case PF_PPM_STATE_W_START of the four set and get functions
wrong_state(n) ==
  [n EXCEPT !.ar.err_cls = PNET_ERROR_CODE_1_PPM,
            !.ar.err_code = PNET_ERROR_CODE_2_PPM_INVALID_STATE]

\* CC_ASSERT(net->ppm_buf_lock != NULL)
CC_ASSERT_lock(n) == IF n.ppm_buf_lock # NULL THEN n ELSE SetUb(n, "assert_lock_null")

\* memcpy(&p_iocr->ppm.buffer_data[off], src, len)
WriteBufferData(n, crep, off, src, len) ==
  IF off + len <= Len(PPM(n, crep).buffer_data)
  THEN [n EXCEPT !.ar.iocrs[crep].ppm.buffer_data = memcpy(@, off, SubSeq(src, 1, len))]
  ELSE SetUb(n, "buffer_data_overrun")

(***************************************************************************)
(* pf_ppm_set_data_and_iops.  p_data holds data_len bytes, p_iops holds    *)
(* iops_len bytes; who is the thread that calls.                           *)
(***************************************************************************)
\* lines 1579-1582
set_copy_data(n, d, p_data, data_len) ==
  IF data_len > 0
  THEN WriteBufferData(n, d.crep, IoData(d).data_offset, p_data, data_len)
  ELSE n

\* lines 1583-1586
set_copy_iops(n, d, p_iops, iops_len) ==
  IF iops_len > 0
  THEN WriteBufferData(n, d.crep, IoData(d).iops_offset, p_iops, iops_len)
  ELSE n

\* lines 1589-1590
set_avail(n, d) == Return([n EXCEPT !.ar.iocrs[d.crep].data_avail[d.ix] = TRUE], 0)

\* the state check of lines 1567-1573 left out
pf_ppm_set_data_and_iops_unchecked(n, subslot_nbr, p_data, data_len, p_iops, iops_len, who) ==
  LET m == [Return(Call(n, "set_data", 0, subslot_nbr), -1)
              EXCEPT !.ev.len = <<data_len, iops_len>>]
      d == pf_ppm_get_ar_iocr_desc(subslot_nbr)
  IN IF d.ret # 0 THEN m
     ELSE IF data_len = IoData(d).data_length /\ iops_len = IoData(d).iops_length
     THEN set_avail(
            set_copy_iops(set_copy_data(m, d, p_data, data_len), d, p_iops, iops_len), d)
     ELSE m

pf_ppm_set_data_and_iops(n, subslot_nbr, p_data, data_len, p_iops, iops_len, who) ==
  LET m == [Return(Call(n, "set_data", 0, subslot_nbr), -1)
              EXCEPT !.ev.len = <<data_len, iops_len>>]
      d == pf_ppm_get_ar_iocr_desc(subslot_nbr)
  IN IF d.ret # 0 THEN m
     ELSE IF PPM(m, d.crep).state = PF_PPM_STATE_W_START THEN wrong_state(m)
     ELSE IF data_len = IoData(d).data_length /\ iops_len = IoData(d).iops_length
     THEN set_avail(
            os_mutex_unlock(
              set_copy_iops(
                set_copy_data(os_mutex_lock(CC_ASSERT_lock(m), who),
                              d, p_data, data_len),
                d, p_iops, iops_len),
              who),
            d)
     ELSE m

(***************************************************************************)
(* pf_ppm_set_iocs                                                         *)
(***************************************************************************)
\* line 1639
set_copy_iocs(n, d, p_iocs, iocs_len) ==
  WriteBufferData(n, d.crep, IoData(d).iocs_offset, p_iocs, iocs_len)

\* the length check of line 1635 left out
pf_ppm_set_iocs_unchecked(n, subslot_nbr, p_iocs, iocs_len, who) ==
  LET m == [Return(Call(n, "set_iocs", 0, subslot_nbr), -1)
              EXCEPT !.ev.len = <<iocs_len>>]
      d == pf_ppm_get_ar_iocr_desc(subslot_nbr)
  IN IF d.ret # 0 THEN m
     ELSE IF PPM(m, d.crep).state = PF_PPM_STATE_W_START THEN wrong_state(m)
     ELSE Return(
            os_mutex_unlock(
              set_copy_iocs(os_mutex_lock(CC_ASSERT_lock(m), who), d, p_iocs, iocs_len),
              who),
            0)

pf_ppm_set_iocs(n, subslot_nbr, p_iocs, iocs_len, who) ==
  LET m == [Return(Call(n, "set_iocs", 0, subslot_nbr), -1)
              EXCEPT !.ev.len = <<iocs_len>>]
      d == pf_ppm_get_ar_iocr_desc(subslot_nbr)
  IN IF d.ret # 0 THEN m
     ELSE IF PPM(m, d.crep).state = PF_PPM_STATE_W_START THEN wrong_state(m)
     ELSE IF iocs_len = IoData(d).iocs_length
     THEN Return(
            os_mutex_unlock(
              set_copy_iocs(os_mutex_lock(CC_ASSERT_lock(m), who), d, p_iocs, iocs_len),
              who),
            0)
     ELSE IF IoData(d).iocs_length = 0 THEN Return(m, 0)
     ELSE m

(***************************************************************************)
(* pf_ppm_get_data_and_iops and pf_ppm_get_iocs.  The caller passes its    *)
(* buffers and their capacities; net.ev.out is what the caller has after   *)
(* the call: the buffers and the lengths.                                  *)
(***************************************************************************)
\* a byte of a caller's buffer that no call has written
Untouched == 0 - 1

CallerBuffer(capacity) == [i \in 1..capacity |-> Untouched]

\* memcpy(p_dst, &p_iocr->ppm.buffer_data[off], len)
ReadBufferData(n, crep, p_dst, off, len) ==
  memcpy(p_dst, 0, Slice(PPM(n, crep).buffer_data, off, len))

\* lines 1698-1699 with the data and the IOPS offsets exchanged
get_copy_exchanged(n, d, p_data, p_iops) ==
  [n EXCEPT !.ev.out.data =
               ReadBufferData(n, d.crep, p_data, IoData(d).iops_offset,
                              IoData(d).data_length),
            !.ev.out.iops =
               ReadBufferData(n, d.crep, p_iops, IoData(d).data_offset,
                              IoData(d).iops_length)]

\* lines 1698-1699
get_copy(n, d, p_data, p_iops) ==
  [n EXCEPT !.ev.out.data =
               ReadBufferData(n, d.crep, p_data, IoData(d).data_offset,
                              IoData(d).data_length),
            !.ev.out.iops =
               ReadBufferData(n, d.crep, p_iops, IoData(d).iops_offset,
                              IoData(d).iops_length)]

\* lines 1702-1704
get_lengths(n, d) ==
  Return([n EXCEPT !.ev.out.data_len = IoData(d).data_length,
                   !.ev.out.iops_len = IoData(d).iops_length], 0)

pf_ppm_get_data_and_iops(n, subslot_nbr, p_data, data_len, p_iops, iops_len, who) ==
  LET m == [Return(Call(n, "get_data", 0, subslot_nbr), -1)
              EXCEPT !.ev.out = [data |-> p_data, data_len |-> data_len,
                                 iops |-> p_iops, iops_len |-> iops_len]]
      d == pf_ppm_get_ar_iocr_desc(subslot_nbr)
  IN IF d.ret # 0 THEN m
     ELSE IF PPM(m, d.crep).state = PF_PPM_STATE_W_START THEN wrong_state(m)
     ELSE IF data_len >= IoData(d).data_length /\ iops_len >= IoData(d).iops_length
     THEN get_lengths(
            os_mutex_unlock(
              get_copy(os_mutex_lock(CC_ASSERT_lock(m), who), d, p_data, p_iops),
              who),
            d)
     ELSE m

\* line 1765
get_copy_iocs(n, d, p_iocs) ==
  [n EXCEPT !.ev.out.iocs =
               ReadBufferData(n, d.crep, p_iocs, IoData(d).iocs_offset,
                              IoData(d).iocs_length)]

pf_ppm_get_iocs(n, subslot_nbr, p_iocs, iocs_len, who) ==
  LET m == [Return(Call(n, "get_iocs", 0, subslot_nbr), -1)
              EXCEPT !.ev.out = [iocs |-> p_iocs, iocs_len |-> iocs_len]]
      d == pf_ppm_get_ar_iocr_desc(subslot_nbr)
  IN IF d.ret # 0 THEN m
     ELSE IF PPM(m, d.crep).state = PF_PPM_STATE_W_START THEN wrong_state(m)
     ELSE IF iocs_len >= IoData(d).iocs_length
     THEN Return(
            [os_mutex_unlock(
               get_copy_iocs(os_mutex_lock(CC_ASSERT_lock(m), who), d, p_iocs),
               who)
               EXCEPT !.ev.out.iocs_len = IoData(d).iocs_length],
            0)
     ELSE m

(***************************************************************************)
(* The calls in sequence: each handler runs to its end before the next     *)
(* starts (the cooperative scheduler; the preemptive build while no        *)
(* callback overlaps a call).                                              *)
(***************************************************************************)
SetterThreads == {1, 2}

thr0 ==
  [main |-> [pc |-> "idle"],
   \* ub: the callback ran into undefined behaviour before its last statement
   cb |-> [c \in Creps |-> [pc |-> "idle", ub |-> FALSE]],
   \* the threads that call the data status setters
   set |-> [t \in SetterThreads |-> [pc |-> "idle"]],
   \* the thread that activates and closes IOCR c, with the calls it began
   ctl |-> [c \in Creps |-> [pc |-> "idle", calls |-> 0]],
   \* the mutex objects os_mutex_create made and os_mutex_destroy has not
   \* destroyed, and the number of calls of each
   mtx |-> [live |-> {}, created |-> 0, destroyed |-> 0],
   halted |-> FALSE]

\* nothing set yet
app0 ==
  [data |-> [s \in SubslotNbrs |-> [set |-> FALSE, p_data |-> << >>, p_iops |-> << >>]],
   iocs |-> [s \in SubslotNbrs |-> [set |-> FALSE, p_iocs |-> << >>]],
   \* the last TTL TLV the LLDP peer sent
   peer |-> [seen |-> FALSE, ttl |-> 0, at |-> 0],
   \* the last frame the LLDP peer sent
   rx |-> [seen |-> FALSE, bytes |-> << >>, regular |-> FALSE, alarms |-> 0]]

Init ==
  /\ net = net0
  /\ PNET_OS_RTOS_SUPPORTED \in BOOLEAN
  /\ thr = thr0
  /\ app = app0

\* ppm_instance_cnt stays near 0: at most MaxExtra above the number of
\* IOCRs, at most MaxExtra below 0 (where it wraps to UINT32_MAX and below)
CntInBounds(cnt) == cnt \in (-MaxExtra)..(PNET_MAX_CR + MaxExtra)

CountersInBounds(n) ==
  n.interface_statistics.ifOutErrors + n.interface_statistics.ifOutOctects <= MaxCount

\* a step ran into undefined behaviour: the program goes on, or it stops
Halt ==
  /\ ~thr.halted
  /\ net.ev.ub # "no"
  /\ thr' = [thr EXCEPT !.halted = TRUE]
  /\ UNCHANGED <<net, PNET_OS_RTOS_SUPPORTED, app>>

PpmInit ==
  /\ ~thr.halted
  /\ net' = pf_ppm_init(net)
  /\ UNCHANGED <<PNET_OS_RTOS_SUPPORTED, thr, app>>

Activate(crep) ==
  /\ ~thr.halted
  /\ \E timer_ok \in BOOLEAN : net' = pf_ppm_activate_req(net, crep, timer_ok)
  /\ CntInBounds(net'.ppm_instance_cnt)
  /\ UNCHANGED <<PNET_OS_RTOS_SUPPORTED, thr, app>>

\* the callback runs at a time of T
SendAt(crep, T) ==
  /\ ~thr.halted
  /\ Armed(net, crep)
  /\ \E t \in T, eth_ok \in BOOLEAN, rearm_ok \in BOOLEAN :
       /\ t >= net.now
       /\ net' = pf_ppm_send(TimerExpires(Call(net, "send", crep, 0), crep),
                             crep, t, eth_ok, rearm_ok)
  /\ CountersInBounds(net')
  /\ UNCHANGED <<PNET_OS_RTOS_SUPPORTED, thr, app>>

Send(crep) == SendAt(crep, Times)

Close(crep) ==
  /\ ~thr.halted
  /\ net' = pf_ppm_close_req(net, crep)
  /\ CntInBounds(net'.ppm_instance_cnt)
  /\ UNCHANGED <<PNET_OS_RTOS_SUPPORTED, thr, app>>

Next ==
  \/ PpmInit
  \/ \E crep \in Creps : Activate(crep)
  \/ \E crep \in Creps : Send(crep)
  \/ \E crep \in Creps : Close(crep)
  \/ Halt

Spec == Init /\ [][Next]_vars

(***************************************************************************)
(* Construction and destruction only: pf_ppm_init has run once, an         *)
(* instance is closed only while it is in RUN.                             *)
(***************************************************************************)
CloseRunning(crep) ==
  /\ PPM(net, crep).state = PF_PPM_STATE_RUN
  /\ Close(crep)

NextLifecycle ==
  \/ \E crep \in Creps : Activate(crep)
  \/ \E crep \in Creps : Send(crep)
  \/ \E crep \in Creps : CloseRunning(crep)

SpecLifecycle == Init /\ [][NextLifecycle]_vars

(***************************************************************************)
(* The application sets and gets the data of its sub-slots while the       *)
(* Input CR (IOCR 1, the IOCR of the descriptors) is activated and closed. *)
(* A set or get runs to its end before the next call starts; the           *)
(* application takes the result of a call before it makes the next one.    *)
(***************************************************************************)
ByteSeqs == UNION {[1..k -> Bytes] : k \in 0..MaxLen}
Capacities == 0..MaxLen

AppIdle == ~thr.halted /\ net.ev.op = "none"

TakeResult ==
  /\ ~thr.halted
  /\ net.ev.op # "none"
  /\ net' = [net EXCEPT !.ev = NoEv]
  /\ UNCHANGED <<PNET_OS_RTOS_SUPPORTED, thr, app>>

SetDataFrom(s, DataSeqs, IopsSeqs) ==
  /\ AppIdle
  /\ \E p_data \in DataSeqs, p_iops \in IopsSeqs :
       /\ net' = pf_ppm_set_data_and_iops(net, s, p_data, Len(p_data),
                                          p_iops, Len(p_iops), "main")
       /\ app' = IF net'.ev.ret = 0
                 THEN [app EXCEPT !.data[s] = [set |-> TRUE, p_data |-> p_data,
                                               p_iops |-> p_iops]]
                 ELSE app
  /\ UNCHANGED <<PNET_OS_RTOS_SUPPORTED, thr>>

SetData(s) == SetDataFrom(s, ByteSeqs, ByteSeqs)

SetIocs(s) ==
  /\ AppIdle
  /\ \E p_iocs \in ByteSeqs :
       /\ net' = pf_ppm_set_iocs(net, s, p_iocs, Len(p_iocs), "main")
       \* the bytes of p_iocs that the sub-slot has room for
       /\ app' = IF net'.ev.ret = 0
                 THEN [app EXCEPT !.iocs[s] =
                         [set |-> TRUE,
                          p_iocs |-> LET room == IoData(pf_ppm_get_ar_iocr_desc(s)).iocs_length
                                     IN  IF Len(p_iocs) <= room THEN p_iocs
                                         ELSE SubSeq(p_iocs, 1, room)]]
                 ELSE app
  /\ UNCHANGED <<PNET_OS_RTOS_SUPPORTED, thr>>

GetData(s) ==
  /\ AppIdle
  /\ \E data_len \in Capacities, iops_len \in Capacities :
       net' = pf_ppm_get_data_and_iops(net, s, CallerBuffer(data_len), data_len,
                                       CallerBuffer(iops_len), iops_len, "main")
  /\ UNCHANGED <<PNET_OS_RTOS_SUPPORTED, thr, app>>

GetIocs(s) ==
  /\ AppIdle
  /\ \E iocs_len \in Capacities :
       net' = pf_ppm_get_iocs(net, s, CallerBuffer(iocs_len), iocs_len, "main")
  /\ UNCHANGED <<PNET_OS_RTOS_SUPPORTED, thr, app>>

\* the connect: the Input CR is activated once, its timer is installed
ActivateInput ==
  /\ ~thr.halted
  /\ ~Running(net, 1)
  /\ net' = pf_ppm_activate_req(net, 1, TRUE)
  /\ UNCHANGED <<PNET_OS_RTOS_SUPPORTED, thr, app>>

DataActivate ==
  /\ AppIdle
  /\ ActivateInput

DataClose ==
  /\ AppIdle
  /\ CloseRunning(1)

NextData ==
  \/ DataActivate
  \/ DataClose
  \/ TakeResult
  \/ \E s \in SubslotNbrs : SetData(s)
  \/ \E s \in SubslotNbrs : SetIocs(s)
  \/ \E s \in SubslotNbrs : GetData(s)
  \/ \E s \in SubslotNbrs : GetIocs(s)

SpecData == Init /\ [][NextData]_vars

(***************************************************************************)
(* The frames of the Input CR: the connect request has set its             *)
(* send_clock_factor and reduction_ratio; the application sets data, the   *)
(* timer runs the send step at the times of the clock.                     *)
(***************************************************************************)
\* <<send_clock_factor, reduction_ratio>>: a clock that does not divide 2^16,
\* the clock of the default connect, and a product of 2^16
ClockParams == {<<3, 1>>, <<32, 1>>, <<128, 512>>}
\* 3 ms; 2.1 s, where the 31.25 us tics have passed 2^16; 2^29 us, where
\* four times the clock has passed 2^31
FrameTimes == {0, 3000, 2100000, TwoTo29}

InitFrame ==
  /\ \E cp \in ClockParams :
       net = [net0 EXCEPT !.ar.iocrs[1].param.send_clock_factor = cp[1],
                          !.ar.iocrs[1].param.reduction_ratio = cp[2]]
  /\ PNET_OS_RTOS_SUPPORTED \in BOOLEAN
  /\ thr = thr0
  /\ app = app0

FrameSend ==
  /\ AppIdle
  /\ SendAt(1, FrameTimes)

\* the application sets data and IOPS of the lengths the sub-slot declares
FrameSetData ==
  LET d == IoData(pf_ppm_get_ar_iocr_desc(1))
  IN  SetDataFrom(1, [1..d.data_length -> Bytes], [1..d.iops_length -> Bytes])

NextFrame ==
  \/ DataActivate
  \/ DataClose
  \/ TakeResult
  \/ FrameSend
  \/ FrameSetData
  \/ Halt

SpecFrame == InitFrame /\ [][NextFrame]_vars

(***************************************************************************)
(* The data status: the instances are activated and closed, the stack      *)
(* sets the bits of data_status, in RUN and in W_START.                    *)
(***************************************************************************)
StatusActivate ==
  /\ AppIdle
  /\ \E crep \in Creps : ~Running(net, crep) /\ Activate(crep)

StatusClose ==
  /\ AppIdle
  /\ \E crep \in Creps : CloseRunning(crep)

SetStatusState ==
  /\ AppIdle
  /\ \E crep \in Creps, primary \in BOOLEAN :
       net' = pf_ppm_set_data_status_state(net, crep, primary)
  /\ UNCHANGED <<PNET_OS_RTOS_SUPPORTED, thr, app>>

SetStatusRedundancy ==
  /\ AppIdle
  /\ \E crep \in Creps, redundant \in BOOLEAN :
       net' = pf_ppm_set_data_status_redundancy(net, crep, redundant)
  /\ UNCHANGED <<PNET_OS_RTOS_SUPPORTED, thr, app>>

SetStatusProvider ==
  /\ AppIdle
  /\ \E crep \in Creps, run \in BOOLEAN :
       net' = pf_ppm_set_data_status_provider(net, crep, run)
  /\ UNCHANGED <<PNET_OS_RTOS_SUPPORTED, thr, app>>

SetProblemIndicator ==
  /\ AppIdle
  /\ \E problem_indicator \in BOOLEAN :
       net' = pf_ppm_set_problem_indicator(net, problem_indicator)
  /\ UNCHANGED <<PNET_OS_RTOS_SUPPORTED, thr, app>>

NextStatus ==
  \/ StatusActivate
  \/ StatusClose
  \/ TakeResult
  \/ SetStatusState
  \/ SetStatusRedundancy
  \/ SetStatusProvider
  \/ SetProblemIndicator

SpecStatus == Init /\ [][NextStatus]_vars

(***************************************************************************)
(* The problem indicator: the connect request has given each IOCR of the   *)
(* AR one of the four types; the PPMs of the Input CRs and of the          *)
(* multicast provider CRs are activated, the stack sets the bits.          *)
(***************************************************************************)
IocrTypes == {PF_IOCR_TYPE_INPUT, PF_IOCR_TYPE_OUTPUT,
              PF_IOCR_TYPE_MC_PROVIDER, PF_IOCR_TYPE_MC_CONSUMER}

Provides(n, crep) ==
  n.ar.iocrs[crep].param.iocr_type \in {PF_IOCR_TYPE_INPUT, PF_IOCR_TYPE_MC_PROVIDER}

InitIndicator ==
  /\ \E types \in [Creps -> IocrTypes] :
       net = [net0 EXCEPT !.ar.iocrs =
                [c \in Creps |-> [@[c] EXCEPT !.param.iocr_type = types[c]]]]
  /\ PNET_OS_RTOS_SUPPORTED \in BOOLEAN
  /\ thr = thr0
  /\ app = app0

IndicatorActivate ==
  /\ AppIdle
  /\ \E crep \in Creps :
       ~Running(net, crep) /\ Provides(net, crep) /\ Activate(crep)

NextIndicator ==
  \/ IndicatorActivate
  \/ TakeResult
  \/ SetStatusState
  \/ SetStatusRedundancy
  \/ SetStatusProvider
  \/ SetProblemIndicator

SpecIndicator == InitIndicator /\ [][NextIndicator]_vars

(***************************************************************************)
(* The data status setters on two threads.  A setter is the statement      *)
(* p_ppm->data_status |= BIT(b) or &= ~BIT(b) on a uint8_t, with no lock:  *)
(* a load of the byte, then a store of the byte with the bit changed.      *)
(* pf_ppm_set_problem_indicator does this for each Input CR and multicast  *)
(* provider CR in turn.  thr.set holds where each thread is and the byte   *)
(* it has loaded.                                                          *)
(***************************************************************************)
SetterOps == {"set_state", "set_redundancy", "set_provider", "set_problem_indicator"}

\* the bit of a setter and the value it gets for the bool of the call
SetterBit(op) ==
  CASE op = "set_state" -> PNET_DATA_STATUS_BIT_STATE
    [] op = "set_redundancy" -> PNET_DATA_STATUS_BIT_REDUNDANCY
    [] op = "set_provider" -> PNET_DATA_STATUS_BIT_PROVIDER_STATE
    [] OTHER -> 5

SetterValue(op, flag) == IF op = "set_problem_indicator" THEN ~flag ELSE flag

\* the IOCRs from ix on that pf_ppm_set_problem_indicator changes
ProvidersFrom(n, ix) == {c \in Creps : c >= ix /\ Provides(n, c)}

FirstOf(S) == CHOOSE c \in S : \A d \in S : c <= d

\* the call and the load of the byte
SetterCall(t) ==
  /\ thr.set[t].pc = "idle"
  /\ \E op \in SetterOps, flag \in BOOLEAN :
       LET first == IF op = "set_problem_indicator"
                    THEN ProvidersFrom(net, 1) ELSE {1}
       IN /\ first # {}
          /\ thr' = [thr EXCEPT !.set[t] =
                       [pc |-> "store", op |-> op, crep |-> FirstOf(first),
                        flag |-> flag,
                        v |-> PPM(net, FirstOf(first)).data_status]]
  /\ UNCHANGED <<net, PNET_OS_RTOS_SUPPORTED, app>>

\* the store of the byte with the bit changed
SetterStore(t) ==
  /\ thr.set[t].pc = "store"
  /\ LET c == thr.set[t]
         b == SetterBit(c.op)
         on == SetterValue(c.op, c.flag)
         more == IF c.op = "set_problem_indicator"
                 THEN ProvidersFrom(net, c.crep + 1) ELSE {}
     IN /\ net' = [net EXCEPT !.ar.iocrs[c.crep].ppm.data_status =
                      IF on THEN OrBit(c.v, b) ELSE AndNotBit(c.v, b)]
        /\ thr' = [thr EXCEPT !.set[t] =
                     IF more = {} THEN [pc |-> "idle"]
                     ELSE [pc |-> "load", op |-> c.op, crep |-> FirstOf(more),
                           flag |-> c.flag]]
  /\ UNCHANGED <<PNET_OS_RTOS_SUPPORTED, app>>

\* pf_ppm_set_problem_indicator: the load of the byte of the next IOCR
SetterLoad(t) ==
  /\ thr.set[t].pc = "load"
  /\ thr' = [thr EXCEPT !.set[t] =
               [pc |-> "store", op |-> @.op, crep |-> @.crep, flag |-> @.flag,
                v |-> PPM(net, @.crep).data_status]]
  /\ UNCHANGED <<net, PNET_OS_RTOS_SUPPORTED, app>>

NextSetters ==
  \/ \E t \in SetterThreads : SetterCall(t)
  \/ \E t \in SetterThreads : SetterStore(t)
  \/ \E t \in SetterThreads : SetterLoad(t)

SpecSetters == Init /\ [][NextSetters]_vars

(***************************************************************************)
(* LLDP receive.  A frame of the peer is a sequence of TLVs with an End    *)
(* TLV, written as the peer encodes it; f.regular says that it is a        *)
(* Chassis ID TLV, one Port ID TLV, a TTL TLV and the End TLV, in this     *)
(* order.  app.rx holds the last frame received and the number of times    *)
(* the remote-mismatch path ran for it; app.peer holds the TTL of the last *)
(* TTL TLV received, as the peer encoded it, and when it was received.     *)
(***************************************************************************)
Tlv(typ, payload) == pf_lldp_tlv_header(typ, Len(payload)) \o payload
ChassisTlv(id) == Tlv(LLDP_TYPE_CHASSIS_ID, <<LLDP_SUBTYPE_CHASSIS_ID_NAME>> \o id)
PortTlv(id) == Tlv(LLDP_TYPE_PORT_ID, <<LLDP_SUBTYPE_PORT_ID_LOCAL>> \o id)
TtlTlv(ttl) == Tlv(LLDP_TYPE_TTL, htons(ttl))
EndTlv == Tlv(LLDP_TYPE_END, << >>)

PeerFrame(chassis, port, ttl) ==
  [bytes |-> ChassisTlv(chassis) \o PortTlv(port) \o TtlTlv(ttl) \o EndTlv,
   regular |-> TRUE, has_ttl |-> TRUE, ttl |-> ttl]

\* the calls of the remote-mismatch path in a step
MismatchCalls(n) ==
  Cardinality({k \in 1..Len(n.ev.calls) :
                 n.ev.calls[k].fn = "pf_lldp_send_remote_mismatch_alarm"})

RecvFrom(Frames) ==
  /\ AppIdle
  /\ \E f \in Frames, timer_ok \in BOOLEAN :
       /\ net' = pf_lldp_recv(net, f.bytes, 0, timer_ok)
       /\ app' = [app EXCEPT
                    !.rx = [seen |-> TRUE, bytes |-> f.bytes, regular |-> f.regular,
                            alarms |-> MismatchCalls(net')],
                    !.peer = IF f.has_ttl
                             THEN [seen |-> TRUE, ttl |-> f.ttl, at |-> net.sec]
                             ELSE @]
  /\ UNCHANGED <<PNET_OS_RTOS_SUPPORTED, thr>>

\* the connection manager takes an AR into use, with no diagnosis yet
ArConnect(ix) ==
  /\ AppIdle
  /\ net.cmrpc_ar[ix].in_use = FALSE
  /\ net' = [net EXCEPT !.cmrpc_ar[ix] =
               [cmrpc_ar0 EXCEPT !.in_use = TRUE,
                                 !.exp_modules = net.cmrpc_ar[ix].exp_modules]]
  /\ UNCHANGED <<PNET_OS_RTOS_SUPPORTED, thr, app>>

ArRelease(ix) ==
  /\ AppIdle
  /\ net.cmrpc_ar[ix].in_use = TRUE
  /\ net' = [net EXCEPT !.cmrpc_ar[ix].in_use = FALSE]
  /\ UNCHANGED <<PNET_OS_RTOS_SUPPORTED, thr, app>>

MaxSec == 3                        \* the clock of the LLDP timers: 0..MaxSec

PeerTimerDue(n) ==
  LET timer == n.fspm_cfg.lldp_peer_cfg.peerTimer
  IN  timer.armed /\ timer.deadline <= n.sec

\* a second passes; a timer that is due expires first
LldpTick ==
  /\ AppIdle
  /\ ~PeerTimerDue(net)
  /\ net.sec < MaxSec
  /\ net' = [net EXCEPT !.sec = @ + 1]
  /\ UNCHANGED <<PNET_OS_RTOS_SUPPORTED, thr, app>>

PeerTimeout ==
  /\ AppIdle
  /\ PeerTimerDue(net)
  /\ net' = pf_lldp_peer_timeout_cb(net)
  /\ UNCHANGED <<PNET_OS_RTOS_SUPPORTED, thr, app>>

(***************************************************************************)
(* The alias: the peer sends frames with two chassis IDs ("c", "d") and    *)
(* two port IDs ("a", "a.b"), also with the Port ID before the Chassis ID  *)
(* and with two Port IDs ("a" and "a.b", "a" and "b"), all with a TTL of   *)
(* 2 s; the ARs come into use and are released, the clock advances and the *)
(* peer timer expires.                                                     *)
(***************************************************************************)
PeerChassisIds == {<<99>>, <<100>>}
PeerPortIds == {<<97>>, <<97, Dot, 98>>}

OddFrames ==
  {[bytes |-> PortTlv(<<97>>) \o ChassisTlv(<<99>>) \o TtlTlv(2) \o EndTlv,
    regular |-> FALSE, has_ttl |-> TRUE, ttl |-> 2],
   [bytes |-> ChassisTlv(<<99>>) \o PortTlv(<<97>>) \o PortTlv(<<97, Dot, 98>>)
              \o TtlTlv(2) \o EndTlv,
    regular |-> FALSE, has_ttl |-> TRUE, ttl |-> 2],
   [bytes |-> ChassisTlv(<<99>>) \o PortTlv(<<97>>) \o PortTlv(<<98>>)
              \o TtlTlv(2) \o EndTlv,
    regular |-> FALSE, has_ttl |-> TRUE, ttl |-> 2]}

AliasFrames ==
  {PeerFrame(chassis, port, 2) : chassis \in PeerChassisIds, port \in PeerPortIds}
  \cup OddFrames

InitAlias ==
  /\ net = net0
  /\ PNET_OS_RTOS_SUPPORTED = TRUE
  /\ thr = thr0
  /\ app = app0

AliasRecv == RecvFrom(AliasFrames)

NextAlias ==
  \/ AliasRecv
  \/ \E ix \in ArIxs : ArConnect(ix)
  \/ \E ix \in ArIxs : ArRelease(ix)
  \/ LldpTick
  \/ PeerTimeout
  \/ TakeResult

SpecAlias == InitAlias /\ [][NextAlias]_vars

(***************************************************************************)
(* Frames of any content: without an End TLV, with a TLV of length 0, with *)
(* a TLV whose length goes past the end of the frame, with a TLV of a type *)
(* the switch does not know, and a regular frame.  The decoding of a frame *)
(* that is read past its end stops there, in the model; the program goes   *)
(* on with what it finds behind the frame, or stops.  Type 5 is a type for  *)
(* which the switch of pf_lldp_recv has no case.                           *)
(***************************************************************************)
BareFrame(bytes) == [bytes |-> bytes, regular |-> FALSE, has_ttl |-> FALSE, ttl |-> 0]

MalformedFrames ==
  {BareFrame(ChassisTlv(<<99>>) \o PortTlv(<<97>>) \o TtlTlv(2)),
   BareFrame(pf_lldp_tlv_header(LLDP_TYPE_CHASSIS_ID, 0) \o EndTlv),
   BareFrame(pf_lldp_tlv_header(LLDP_TYPE_PORT_ID, 5) \o <<LLDP_SUBTYPE_PORT_ID_LOCAL, 97>>),
   BareFrame(ChassisTlv(<<99>>) \o pf_lldp_tlv_header(LLDP_TYPE_TTL, 2) \o <<0>>),
   BareFrame(Tlv(LLDP_TYPE_ORG_SPEC, LLDP_PROFIBUS_CODE
                   \o <<LLDP_PROFIBUS_SUBTYPE_CHASSIS_MAC, 2, 0>>) \o EndTlv),
   BareFrame(ChassisTlv(<<99>>) \o Tlv(5, <<100>>)
               \o PortTlv(<<97>>) \o EndTlv),
   PeerFrame(<<99>>, <<98>>, 2)}

MalformedRecv == RecvFrom(MalformedFrames)

NextMalformed ==
  \/ MalformedRecv
  \/ \E ix \in ArIxs : ArConnect(ix)
  \/ \E ix \in ArIxs : ArRelease(ix)
  \/ LldpTick
  \/ PeerTimeout
  \/ TakeResult
  \/ Halt

SpecMalformed == InitAlias /\ [][NextMalformed]_vars

(***************************************************************************)
(* The peer timer: the peer sends its frame with TTLs of 1 s, 2 s and      *)
(* 257 s (0x0101), the clock advances and the peer timer expires; the ARs  *)
(* have the DAP as the first or as the second of their expected modules,   *)
(* or not at all.                                                          *)
(***************************************************************************)
PeerTtls == {1, 2, 257}

TtlFrames == {PeerFrame(<<99>>, <<97>>, ttl) : ttl \in PeerTtls}

ExpModules == {<<DapModule, IoModule>>, <<IoModule, DapModule>>, <<IoModule>>}

InitPeer ==
  /\ \E exp \in [ArIxs -> ExpModules] :
       net = [net0 EXCEPT !.cmrpc_ar =
                [ix \in ArIxs |-> [cmrpc_ar0 EXCEPT !.exp_modules = exp[ix]]]]
  /\ PNET_OS_RTOS_SUPPORTED = TRUE
  /\ thr = thr0
  /\ app = app0

PeerRecv == RecvFrom(TtlFrames)

NextPeer ==
  \/ PeerRecv
  \/ \E ix \in ArIxs : ArConnect(ix)
  \/ \E ix \in ArIxs : ArRelease(ix)
  \/ LldpTick
  \/ PeerTimeout
  \/ TakeResult

SpecPeer == InitPeer /\ [][NextPeer]_vars

(***************************************************************************)
(* The broadcast: the device has a configuration with or without a chassis *)
(* name, pf_lldp_start_broadcast creates and starts the periodic timer,    *)
(* the timer calls pf_lldp_timer_cb at each period until it has its exit   *)
(* flag, pf_lldp_send is also called directly, and the boundary is written *)
(* and cleared.  The names are short: 1 + strlen fits the uint8_t len of   *)
(* pf_lldp_tlv_header.                                                     *)
(***************************************************************************)
ChassisNames == {<< >>, <<99>>, <<99, 100>>}
PortNames == {<<112>>, <<112, Dot, 49>>}
Ttls == {20, 258}
IpAddrs == {0, 167772161}          \* 0.0.0.0 and 10.0.0.1

InitBroadcast ==
  /\ \E chassis_id \in ChassisNames, port_id \in PortNames, ttl \in Ttls,
        ipaddr \in IpAddrs :
       net = [net0 EXCEPT !.fspm_cfg.lldp_cfg.chassis_id = chassis_id,
                          !.fspm_cfg.lldp_cfg.port_id = port_id,
                          !.fspm_cfg.lldp_cfg.ttl = ttl,
                          !.ipaddr = ipaddr]
  /\ PNET_OS_RTOS_SUPPORTED = TRUE
  /\ thr = thr0
  /\ app = app0

\* the timer thread runs: the timer is started and has no exit flag
BroadcastRuns(n) ==
  /\ BroadcastTimer(n).handle # NULL
  /\ BroadcastTimer(n).armed
  /\ ~BroadcastTimer(n).exit

StartBroadcast ==
  /\ AppIdle
  /\ ~BroadcastRuns(net)
  /\ \E timer_ok \in BOOLEAN :
       net' = pf_lldp_start_broadcast(Call(net, "lldp_start_broadcast", 0, 0), timer_ok)
  /\ UNCHANGED <<PNET_OS_RTOS_SUPPORTED, thr, app>>

BroadcastTick ==
  /\ AppIdle
  /\ BroadcastRuns(net)
  /\ \E alloc_ok \in BOOLEAN, eth_ok \in BOOLEAN :
       net' = pf_lldp_timer_cb(Call(net, "lldp_timer_cb", 0, 0), alloc_ok, eth_ok)
  /\ CountersInBounds(net')
  /\ UNCHANGED <<PNET_OS_RTOS_SUPPORTED, thr, app>>

LldpSend ==
  /\ AppIdle
  /\ \E alloc_ok \in BOOLEAN, eth_ok \in BOOLEAN :
       net' = pf_lldp_send(Call(net, "lldp_send", 0, 0), alloc_ok, eth_ok)
  /\ CountersInBounds(net')
  /\ UNCHANGED <<PNET_OS_RTOS_SUPPORTED, thr, app>>

\* the controller writes the peer boundary of the port
BoundaryWrite ==
  /\ AppIdle
  /\ net' = [net EXCEPT !.fspm_cfg.lldp_peer_req.not_send_LLDP_Frames = ~@]
  /\ UNCHANGED <<PNET_OS_RTOS_SUPPORTED, thr, app>>

NextBroadcast ==
  \/ StartBroadcast
  \/ BroadcastTick
  \/ LldpSend
  \/ BoundaryWrite
  \/ TakeResult

SpecBroadcast == InitBroadcast /\ [][NextBroadcast]_vars

(***************************************************************************)
(* The round trip: a device with the configurations of the broadcast       *)
(* builds its frame and a peer with the same code decodes it from the      *)
(* first TLV, at offset 14; app.rx holds the frame.                        *)
(***************************************************************************)
RoundTrip ==
  /\ AppIdle
  /\ ~app.rx.seen
  /\ \E timer_ok \in BOOLEAN :
       net' = pf_lldp_recv(net, lldp_frame(net), 14, timer_ok)
  /\ app' = [app EXCEPT !.rx = [seen |-> TRUE, bytes |-> lldp_frame(net),
                                 regular |-> TRUE, alarms |-> MismatchCalls(net')]]
  /\ UNCHANGED <<PNET_OS_RTOS_SUPPORTED, thr>>

NextRoundTrip ==
  \/ RoundTrip
  \/ BoundaryWrite
  \/ LldpSend
  \/ TakeResult

SpecRoundTrip == InitBroadcast /\ [][NextRoundTrip]_vars

(***************************************************************************)
(* pf_ppm_calculate_compensated_delay, called with the delays and stack    *)
(* cycle times of the two sets, in either build.                           *)
(***************************************************************************)
WantedDelays == {0, 1, 500, 1000, 1499, 1500, 1501, 2500, 4000, 31250}
StackCycleTimes == {1, 2, 3, 1000, 1001, 31250}

CompensatedDelay ==
  \E wanted_delay \in WantedDelays, stack_cycle_time \in StackCycleTimes :
    /\ net' = [net EXCEPT !.ev =
                 [NoEv EXCEPT !.op = "compensated_delay",
                              !.len = <<wanted_delay, stack_cycle_time>>,
                              !.ret = pf_ppm_calculate_compensated_delay(
                                        wanted_delay, stack_cycle_time)]]
    /\ UNCHANGED <<PNET_OS_RTOS_SUPPORTED, thr, app>>

NextDelay == CompensatedDelay

SpecDelay == Init /\ [][NextDelay]_vars

(***************************************************************************)
(* The preemptive build.  The callback of the timer of the Input CR runs   *)
(* on the timer thread, pf_ppm_send statement by statement, while the main *)
(* thread activates and closes the IOCR and sets the data of sub-slot 1,   *)
(* pf_ppm_set_data_and_iops statement by statement.  thr holds where each  *)
(* thread is, and the arguments of the set the main thread is in.          *)
(***************************************************************************)
InitConc ==
  /\ Init
  /\ PNET_OS_RTOS_SUPPORTED = TRUE

MainIdle == ~thr.halted /\ thr.main.pc = "idle"

ConcActivate ==
  /\ MainIdle
  /\ ActivateInput

ConcClose ==
  /\ MainIdle
  /\ CloseRunning(1)

\* lines 1565-1578: a set that reaches os_mutex_lock waits there for the mutex
SetLockOf(s, Data) ==
  /\ MainIdle
  /\ \E p_data \in Data, p_iops \in Data :
       LET d == pf_ppm_get_ar_iocr_desc(s)
           m == [Return(Call(net, "set_data", 0, s), -1)
                   EXCEPT !.ev.len = <<Len(p_data), Len(p_iops)>>]
       IN /\ d.ret = 0
          /\ PPM(net, d.crep).state = PF_PPM_STATE_RUN
          /\ Len(p_data) = IoData(d).data_length
          /\ Len(p_iops) = IoData(d).iops_length
          /\ MutexFree(net)
          /\ net' = os_mutex_lock(CC_ASSERT_lock(m), "main")
          /\ thr' = [thr EXCEPT !.main = [pc |-> "set_data", s |-> s,
                                          p_data |-> p_data, p_iops |-> p_iops]]
  /\ UNCHANGED <<PNET_OS_RTOS_SUPPORTED, app>>

ConcSetLock(s) == SetLockOf(s, [1..1 -> Bytes])

\* lines 1579-1582
ConcSetData ==
  /\ ~thr.halted
  /\ thr.main.pc = "set_data"
  /\ net' = set_copy_data(net, pf_ppm_get_ar_iocr_desc(thr.main.s),
                          thr.main.p_data, Len(thr.main.p_data))
  /\ thr' = [thr EXCEPT !.main.pc = "set_iops"]
  /\ UNCHANGED <<PNET_OS_RTOS_SUPPORTED, app>>

\* lines 1583-1590
ConcSetIops ==
  /\ ~thr.halted
  /\ thr.main.pc = "set_iops"
  /\ LET d == pf_ppm_get_ar_iocr_desc(thr.main.s) IN
       net' = set_avail(
                os_mutex_unlock(
                  set_copy_iops(net, d, thr.main.p_iops, Len(thr.main.p_iops)),
                  "main"),
                d)
  /\ app' = [app EXCEPT !.data[thr.main.s] =
                           [set |-> TRUE, p_data |-> thr.main.p_data,
                            p_iops |-> thr.main.p_iops]]
  /\ thr' = [thr EXCEPT !.main = [pc |-> "idle"]]
  /\ UNCHANGED PNET_OS_RTOS_SUPPORTED

\* the callback going on without the test of line 1250
send_running_always(n, crep) == TRUE

\* line 1250
send_running(n, crep) == PPM(n, crep).ci_running = TRUE

\* pf_ppm_wdtimer_event, lines 1249-1251: the timer expires, the callback
\* starts and reads ci_running
CbEnter(crep) ==
  /\ ~thr.halted
  /\ thr.cb[crep].pc = "idle"
  /\ Armed(net, crep)
  /\ net' = send_entry(TimerExpires(Call(net, "send_entry", crep, 0), crep), crep)
  /\ thr' = [thr EXCEPT !.cb[crep] =
                           [pc |-> IF send_running(net, crep)
                                   THEN "lock" ELSE "idle",
                            ub |-> FALSE]]
  /\ UNCHANGED <<PNET_OS_RTOS_SUPPORTED, app>>

\* pf_ppm_finish_buffer, lines 1141-1162: the callback waits for the mutex
CbLock(crep) ==
  /\ ~thr.halted
  /\ thr.cb[crep].pc = "lock"
  /\ MutexFree(net)
  /\ \E t \in Times :
       /\ t >= net.now
       /\ net' = os_mutex_lock(fb_cycle(Call(net, "send_lock", crep, 0), crep, t), "cb")
  /\ thr' = [thr EXCEPT !.cb[crep] = [pc |-> "copy", ub |-> net'.ev.ub # "no"]]
  /\ UNCHANGED <<PNET_OS_RTOS_SUPPORTED, app>>

\* pf_ppm_finish_buffer, lines 1163-1173
CbCopy(crep) ==
  /\ ~thr.halted
  /\ thr.cb[crep].pc = "copy"
  /\ net' = fb_status(
              os_mutex_unlock(
                fb_copy(Call(net, "send_copy", crep, 0), crep, in_length(crep)),
                "cb"),
              crep)
  /\ thr' = [thr EXCEPT !.cb[crep] =
                           [pc |-> "eth", ub |-> @.ub \/ net'.ev.ub # "no"]]
  /\ UNCHANGED <<PNET_OS_RTOS_SUPPORTED, app>>

\* lines 1257-1291
CbEth(crep) ==
  /\ ~thr.halted
  /\ thr.cb[crep].pc = "eth"
  /\ \E eth_ok \in BOOLEAN :
       LET sent == send_eth(Call(net, "send", crep, 0), crep, eth_ok) IN
       net' = IF eth_ok THEN send_rearm(sent, crep, TRUE) ELSE sent
  /\ CountersInBounds(net')
  /\ thr' = [thr EXCEPT !.cb[crep].pc = "idle"]
  /\ UNCHANGED <<PNET_OS_RTOS_SUPPORTED, app>>

NextConc ==
  \/ ConcActivate
  \/ ConcClose
  \/ ConcSetLock(1)
  \/ ConcSetData
  \/ ConcSetIops
  \/ CbEnter(1)
  \/ CbLock(1)
  \/ CbCopy(1)
  \/ CbEth(1)
  \/ Halt

SpecConc == InitConc /\ [][NextConc]_vars

(***************************************************************************)
(* Activate and close of distinct IOCRs on two threads, the statements of  *)
(* each call interleaved with the other thread, with the timer callbacks   *)
(* of IOCR 1 and a set of the application.  An IOCR is activated only      *)
(* while it is not in RUN and closed only while it is in RUN; each thread  *)
(* begins at most MaxCalls calls and the OS installs every timer.  The     *)
(* atomic fetch-and-add of the instance count is one step, the test of     *)
(* its result and what follows are later steps.                            *)
(***************************************************************************)
MaxCalls == 2                \* the activate and close calls one thread begins

CtlIdle(c) == ~thr.halted /\ thr.ctl[c].pc = "idle"
CtlAt(c, pc) == ~thr.halted /\ thr.ctl[c].pc = pc

\* os_mutex_create gives an object that is not one of the live ones
os_mutex_create_new(n, id) == [n EXCEPT !.ppm_buf_lock = id]

\* the application sets the one byte of its data and of its IOPS to MaxByte
RaceSetLock == SetLockOf(1, {<<MaxByte>>})

\* line 1316
RaceActivateCount(c) ==
  /\ CtlIdle(c)
  /\ thr.ctl[c].calls < MaxCalls
  /\ ~Running(net, c)
  /\ net' = [Call(net, "activate_count", c, 0)
               EXCEPT !.ppm_instance_cnt = Inc32(net.ppm_instance_cnt)]
  /\ thr' = [thr EXCEPT !.ctl[c] =
                [pc |-> IF net.ppm_instance_cnt = 0 THEN "activate_create"
                        ELSE "activate_setup",
                 calls |-> @.calls + 1]]
  /\ UNCHANGED <<PNET_OS_RTOS_SUPPORTED, app>>

\* lines 1317-1320
RaceActivateCreate(c) ==
  /\ CtlAt(c, "activate_create")
  /\ \E id \in MutexIds \ thr.mtx.live :
       /\ net.mutex_owner[id] = "free"
       /\ net' = os_mutex_create_new(Call(net, "activate_create", c, 0), id)
       /\ thr' = [thr EXCEPT !.ctl[c].pc = "activate_setup",
                             !.mtx.live = @ \cup {id},
                             !.mtx.created = @ + 1]
  /\ UNCHANGED <<PNET_OS_RTOS_SUPPORTED, app>>

\* lines 1322-1427
RaceActivateSetup(c) ==
  /\ CtlAt(c, "activate_setup")
  /\ net' = IF Running(net, c)
            THEN Return(activate_rejected(Call(net, "activate", c, 0)), -1)
            ELSE activate_timer(activate_setup(Call(net, "activate", c, 0), c),
                                c, TRUE)
  /\ thr' = [thr EXCEPT !.ctl[c].pc = "idle"]
  /\ UNCHANGED <<PNET_OS_RTOS_SUPPORTED, app>>

\* line 1439
RaceCloseRunning(c) ==
  /\ CtlIdle(c)
  /\ thr.ctl[c].calls < MaxCalls
  /\ Running(net, c)
  /\ net' = close_running(Call(net, "close_running", c, 0), c)
  /\ thr' = [thr EXCEPT !.ctl[c] = [pc |-> "close_timer", calls |-> @.calls + 1]]
  /\ UNCHANGED <<PNET_OS_RTOS_SUPPORTED, app>>

\* lines 1440-1458
RaceCloseTimer(c) ==
  /\ CtlAt(c, "close_timer")
  /\ net' = close_buffer(close_timer(Call(net, "close_timer", c, 0), c), c)
  /\ thr' = [thr EXCEPT !.ctl[c].pc = "close_count"]
  /\ UNCHANGED <<PNET_OS_RTOS_SUPPORTED, app>>

\* line 1460
RaceCloseCount(c) ==
  /\ CtlAt(c, "close_count")
  /\ net' = [Call(net, "close_count", c, 0)
               EXCEPT !.ppm_instance_cnt = Dec32(net.ppm_instance_cnt)]
  /\ thr' = [thr EXCEPT !.ctl[c].pc = IF net.ppm_instance_cnt = 1
                                      THEN "close_destroy" ELSE "idle"]
  /\ UNCHANGED <<PNET_OS_RTOS_SUPPORTED, app>>

\* lines 1461-1467
RaceCloseDestroy(c) ==
  /\ CtlAt(c, "close_destroy")
  /\ net' = Return([os_mutex_destroy(Call(net, "close_destroy", c, 0))
                      EXCEPT !.ppm_buf_lock = NULL,
                             !.ar.iocrs[c].ppm.data_status = 0], 0)
  /\ thr' = [thr EXCEPT !.ctl[c].pc = "idle",
                        !.mtx.live = @ \ {net.ppm_buf_lock},
                        !.mtx.destroyed = @ + 1]
  /\ UNCHANGED <<PNET_OS_RTOS_SUPPORTED, app>>

NextRace ==
  \/ \E c \in Creps : RaceActivateCount(c)
  \/ \E c \in Creps : RaceActivateCreate(c)
  \/ \E c \in Creps : RaceActivateSetup(c)
  \/ \E c \in Creps : RaceCloseRunning(c)
  \/ \E c \in Creps : RaceCloseTimer(c)
  \/ \E c \in Creps : RaceCloseCount(c)
  \/ \E c \in Creps : RaceCloseDestroy(c)
  \/ RaceSetLock
  \/ ConcSetData
  \/ ConcSetIops
  \/ CbEnter(1)
  \/ CbLock(1)
  \/ CbCopy(1)
  \/ CbEth(1)
  \/ Halt

SpecRace == InitConc /\ [][NextRace]_vars

(***************************************************************************)
(* The cyclic sending as long as nothing fails: the OS installs the timer  *)
(* of every activate, the driver takes every frame and every re-arm        *)
(* succeeds; IOCR 1 is activated, its data are set, it is closed and       *)
(* activated again.  The timer of an armed instance expires in the end:    *)
(* the OS timer thread (preemptive build) and the scheduler tick           *)
(* (cooperative build) run whatever the application does, which is weak    *)
(* fairness of the send step.  The counters of interface_statistics play   *)
(* no part in the sending and wrap around in the program, as trx_cnt of    *)
(* the PPM does; here they wrap after MaxCount, so that the cyclic sending *)
(* has no last frame.                                                      *)
(***************************************************************************)
StatsWindow(n) ==
  [n EXCEPT !.interface_statistics.ifOutOctects = @ % (MaxCount + 1),
            !.ar.iocrs[1].ppm.trx_cnt = @ % (MaxCount + 1)]

LiveActivate ==
  /\ ~thr.halted
  /\ ~Running(net, 1)
  /\ net' = pf_ppm_activate_req(net, 1, TRUE)
  /\ UNCHANGED <<PNET_OS_RTOS_SUPPORTED, thr, app>>

LiveClose == CloseRunning(1)

LiveSet ==
  /\ ~thr.halted
  /\ \E p_data \in [1..1 -> Bytes], p_iops \in [1..1 -> Bytes] :
       /\ net' = pf_ppm_set_data_and_iops(net, 1, p_data, Len(p_data),
                                          p_iops, Len(p_iops), "main")
       /\ app' = IF net'.ev.ret = 0
                 THEN [app EXCEPT !.data[1] = [set |-> TRUE, p_data |-> p_data,
                                               p_iops |-> p_iops]]
                 ELSE app
  /\ UNCHANGED <<PNET_OS_RTOS_SUPPORTED, thr>>

\* pf_ppm_send with pf_ppm_finish_buffer, statement after statement: the
\* state after each statement is the state the next one starts from
LiveSend ==
  /\ ~thr.halted
  /\ Armed(net, 1)
  /\ \E t \in Times :
       /\ t >= net.now
       /\ \E entered \in {send_entry(TimerExpires(Call(net, "send", 1, 0), 1), 1)} :
            IF send_running(entered, 1)
            THEN \E cycled \in {fb_cycle(entered, 1, t)} :
                 \E locked \in {os_mutex_lock(cycled, "cb")} :
                 \E copied \in {fb_copy(locked, 1, in_length(1))} :
                 \E unlocked \in {os_mutex_unlock(copied, "cb")} :
                 \E finished \in {fb_status(unlocked, 1)} :
                 \E sent \in {send_eth(finished, 1, TRUE)} :
                   net' = StatsWindow(send_rearm(sent, 1, TRUE))
            ELSE net' = entered
  /\ UNCHANGED <<PNET_OS_RTOS_SUPPORTED, thr, app>>

NextLive ==
  \/ LiveActivate
  \/ LiveClose
  \/ LiveSet
  \/ LiveSend

SpecLive == Init /\ [][NextLive]_vars /\ WF_vars(LiveSend)

(***************************************************************************)
(* Properties of activate, send and close run in sequence.                 *)
(***************************************************************************)
\* C1: every PPM instance is in RUN iff ci_running is true iff a timer (or
\* scheduler entry) is armed for it, after any sequence of activate, send
\* and close calls, activations whose timer installation fails included.
C1_RunIffRunningIffArmed ==
  \A c \in Creps :
    /\ Running(net, c) <=> PPM(net, c).ci_running
    /\ PPM(net, c).ci_running <=> Armed(net, c)

\* C2: an activate of an instance that is in RUN returns failure, writes
\* PPM / INVALID_STATE to the AR and leaves the PPM record (state, send
\* buffer, offsets, data_status, ci_running) and the armed timer as they were.
C2_DoubleActivateRejected ==
  [][\A c \in Creps :
       (Running(net, c) /\ net'.ev.op = "activate" /\ net'.ev.crep = c)
       => /\ net'.ev.ret = -1
          /\ net'.ar.err_cls = PNET_ERROR_CODE_1_PPM
          /\ net'.ar.err_code = PNET_ERROR_CODE_2_PPM_INVALID_STATE
          /\ PPM(net', c) = PPM(net, c)
          /\ Running(net', c)
          /\ net'.timer[c] = net.timer[c]]_vars

C2_Witness ==
  /\ net.ev.op = "activate"
  /\ net.ev.ret = -1
  /\ net.ar.err_code = PNET_ERROR_CODE_2_PPM_INVALID_STATE
  /\ Running(net, net.ev.crep)
  /\ Armed(net, net.ev.crep)
  /\ PPM(net, net.ev.crep).trx_cnt > 0

\* C3: after construction and destruction sequences (a rejected double
\* activate included) ppm_buf_lock exists iff at least one PPM instance is
\* in RUN.
C3_LockIffSomeInstanceActive ==
  LockExists(net) <=> Active(net) # {}

\* C4: after init, activate and close calls run in sequence, in any order
\* and on any instances, ppm_buf_lock exists iff instance_count > 0, for
\* the unsigned 32-bit instance_count.
C4_LockIffCountPositive ==
  LockExists(net) <=> Positive32(net.ppm_instance_cnt)

\* C5: a close of an instance that is in RUN (activate, then close) leaves
\* it in WAIT_START with ci_running false, no armed timer and data_status 0,
\* also when other instances are still in RUN; when it was the only
\* instance in RUN, instance_count is 0 and ppm_buf_lock is destroyed.
C5_CloseResetsInstance ==
  [][\A c \in Creps :
       (Running(net, c) /\ net'.ev.op = "close" /\ net'.ev.crep = c)
       => /\ PPM(net', c).state = PF_PPM_STATE_W_START
          /\ PPM(net', c).ci_running = FALSE
          /\ ~Armed(net', c)
          /\ PPM(net', c).data_status = 0
          /\ Active(net) = {c} => /\ net'.ppm_instance_cnt = 0
                                  /\ ~LockExists(net')]_vars

(***************************************************************************)
(* Properties of the send step: the driver and the re-arm fail.            *)
(***************************************************************************)
\* the last step was a send step that handed a frame to the driver
FrameSent(n) == n.ev.op = "send" /\ n.ev.tx # << >>
\* ... and os_eth_send returned <= 0
EthFailed(n) == FrameSent(n) /\ ~n.ev.tx[1].ok
\* ... and os_eth_send took the frame, and the re-arm returned non-zero
RearmFailed(n) == FrameSent(n) /\ n.ev.tx[1].ok /\ n.ev.rearm = "failed"
\* ... and os_eth_send took the frame, and the re-arm returned zero
SentAndRearmed(n) == FrameSent(n) /\ n.ev.tx[1].ok /\ n.ev.rearm = "ok"

\* C11: in the cooperative build a send step whose os_eth_send fails
\* increments ifOutErrors, writes PPM / INVALID to the AR and notifies the
\* connection manager.
C11_EthFailureReported ==
  [][(~PNET_OS_RTOS_SUPPORTED /\ EthFailed(net'))
     => /\ net'.interface_statistics.ifOutErrors
             = Inc32(net.interface_statistics.ifOutErrors)
        /\ net'.ar.err_cls = PNET_ERROR_CODE_1_PPM
        /\ net'.ar.err_code = PNET_ERROR_CODE_2_PPM_INVALID
        /\ net'.ev.error_ind = 1]_vars

\* C12: after a send step whose os_eth_send failed the instance is still
\* armed: its timer or scheduler entry will run the send step again.
C12_EthFailureKeepsArmed ==
  \A c \in Creps :
    (EthFailed(net) /\ net.ev.crep = c) => Armed(net, c)

\* C13: a send step whose frame the driver took and whose re-arm failed
\* sets ci_timer to UINT32_MAX, writes PPM / INVALID to the AR, notifies the
\* connection manager once and leaves trx_cnt as it was; the instance then
\* stays in RUN without a timer, and emits no frame, until it is closed,
\* and a timer is armed again only by an activate of the closed instance.
C13_RearmFailureIsFatal ==
  [][\A c \in Creps :
       /\ (RearmFailed(net') /\ net'.ev.crep = c)
          => /\ PPM(net', c).ci_timer = UINT32_MAX
             /\ net'.ar.err_cls = PNET_ERROR_CODE_1_PPM
             /\ net'.ar.err_code = PNET_ERROR_CODE_2_PPM_INVALID
             /\ net'.ev.error_ind = 1
             /\ PPM(net', c).trx_cnt = PPM(net, c).trx_cnt
             /\ Running(net', c)
             /\ ~Armed(net', c)
       /\ (Running(net, c) /\ ~Armed(net, c))
          => /\ ~(~thr'.halted /\ FrameSent(net') /\ net'.ev.crep = c)
             /\ \/ Running(net', c) /\ ~Armed(net', c)
                \/ net'.ev.op = "close" /\ net'.ev.crep = c
       /\ (~Armed(net, c) /\ Armed(net', c))
          => /\ net'.ev.op = "activate"
             /\ net'.ev.crep = c
             /\ ~Running(net, c)]_vars

\* the re-arm of a send step failed after frames had been counted
C13_Witness ==
  /\ RearmFailed(net)
  /\ PPM(net, net.ev.crep).trx_cnt > 0
  /\ PPM(net, net.ev.crep).first_transmit
  /\ net.ev.error_ind = 1
  /\ ~Armed(net, net.ev.crep)

\* the calls of pf_ppm_state_ind(..., false) by the last step
NoErrorInd(n) == n.ev.state_ind - n.ev.error_ind

\* C14: an activate that is not rejected sets first_transmit to false; a
\* send step that sends and re-arms sets it to true, adds one to trx_cnt and
\* raises the no-error indication iff first_transmit was false; no other
\* step changes first_transmit or trx_cnt or raises the no-error
\* indication; first_transmit = true implies trx_cnt >= 1 (trx_cnt is the
\* unsigned 32-bit counter, and the runs stay below its wrap).
C14_FirstTransmitOnce ==
  [][\A c \in Creps :
       LET p == PPM(net, c)
           q == PPM(net', c)
           activated == /\ net'.ev.op = "activate" /\ net'.ev.crep = c
                        /\ ~Running(net, c) /\ ~thr'.halted
           sent == SentAndRearmed(net') /\ net'.ev.crep = c /\ ~thr'.halted
       IN /\ activated => ~q.first_transmit /\ NoErrorInd(net') = 0
          /\ sent => /\ q.first_transmit
                     /\ q.trx_cnt = Inc32(p.trx_cnt)
                     /\ NoErrorInd(net') = (IF p.first_transmit THEN 0 ELSE 1)
          /\ ~sent => q.trx_cnt = p.trx_cnt
          /\ (~sent /\ ~activated) => q.first_transmit = p.first_transmit
          /\ (~thr'.halted /\ net'.ev.crep = c /\ ~SentAndRearmed(net'))
             => NoErrorInd(net') = 0
          /\ q.first_transmit => Positive32(q.trx_cnt)]_vars

\* the second frame of an activation was sent and the timer re-armed: no
\* indication this time
C14_Witness ==
  /\ SentAndRearmed(net)
  /\ PPM(net, net.ev.crep).first_transmit
  /\ PPM(net, net.ev.crep).trx_cnt = 2
  /\ net.ev.state_ind = 0

(***************************************************************************)
(* Properties of the frames.                                               *)
(***************************************************************************)
\* the frame the last step handed to the driver, and fields of it
Frame(n) == n.ev.tx[1].frame
CycleField(n, c) == Slice(Frame(n), PPM(n, c).cycle_counter_offset, 2)

\* the cycle counter of the specification for the time t in microseconds:
\* raw = t*4/125 (as 4*(t/125) + 4*(t%125)/125, which is the same number),
\* ratio = scf*rr, ratio if raw < ratio else raw - raw mod ratio
ReferenceCycle(t, scf, rr) ==
  LET raw == 4 * (t \div 125) + (4 * (t % 125)) \div 125
      ratio == scf * rr
  IN IF raw < ratio THEN ratio ELSE raw - (raw % ratio)

\* C15: the cycle-counter field of every frame the send step builds holds,
\* big-endian, the 16 bits of the reference value for the time of the step
\* and the send_clock_factor and reduction_ratio of the IOCR.
C15_CycleCounterIsReference ==
  \A c \in Creps :
    (FrameSent(net) /\ net.ev.crep = c /\ net.ev.ub = "no")
    => CycleField(net, c)
         = htons(ReferenceCycle(net.now, PPM(net, c).send_clock_factor,
                                PPM(net, c).reduction_ratio) % TwoTo16)

\* C16: the stored cycle of an instance in RUN and the cycle counter of
\* every frame is a multiple of send_clock_factor * reduction_ratio, and
\* from one frame of an IOCR to the next the counter does not go back: the
\* difference modulo 2^16 is less than 2^15.
C16_CycleMultipleAndMonotonic ==
  [][\A c \in Creps :
       LET p == PPM(net, c)
           q == PPM(net', c)
           ratio == q.send_clock_factor * q.reduction_ratio
       IN IF Running(net', c) /\ net'.ev.ub = "no"
          THEN /\ q.cycle % ratio = 0
               /\ (FrameSent(net') /\ net'.ev.crep = c /\ ~thr'.halted)
                  => /\ CycleField(net', c) = htons(q.cycle)
                     /\ (q.cycle - p.cycle) % TwoTo16 < TwoTo16 \div 2
          ELSE TRUE]_vars

DataStatusField(n, c) == Slice(Frame(n), PPM(n, c).data_status_offset, 1)
TransferStatusField(n, c) == Slice(Frame(n), PPM(n, c).transfer_status_offset, 1)

\* the status bytes of the frames of an IOCR that was activated with no
\* data status setter called since are <<DataStatus>> and <<0>>, at offset
\* buffer_pos + c_sdu_length + 2 and at the next offset
StatusBytesAre(DataStatus) ==
  \A c \in Creps :
    (FrameSent(net) /\ net.ev.crep = c)
    => LET off == PPM(net, c).buffer_pos + net.ar.iocrs[c].param.c_sdu_length + 2
       IN /\ Slice(Frame(net), off, 1) = <<DataStatus>>
          /\ Slice(Frame(net), off + 1, 1) = <<0>>

\* C17 as stated: after activate and one tick with no data status setter in
\* between, the frame carries data status 0x35 (bits 0, 2, 4, 5).
C17_DataStatus0x35 == StatusBytesAre(53)

\* C17: after activate and ticks with no data status setter in between, a
\* frame carries data status 0x25 (bits 0, 2 and 5: STATE, DATA_VALID,
\* STATION_PROBLEM_INDICATOR) at offset buffer_pos + c_sdu_length + 2 and
\* transfer status 0x00 at the next offset.
C17_DataStatus0x25 == StatusBytesAre(37)

\* the first frame of an activation, sent in order
C17_Witness ==
  /\ FrameSent(net)
  /\ net.ev.ub = "no"
  /\ net.ev.state_ind = 1
  /\ net.ev.error_ind = 0
  /\ PPM(net, net.ev.crep).trx_cnt = 1
  /\ DataStatusField(net, net.ev.crep) = <<37>>
  /\ TransferStatusField(net, net.ev.crep) = <<0>>
  /\ PPM(net, net.ev.crep).data_status_offset = 26

\* C18: after every activate that returns success data_status has the bits
\* STATE, DATA_VALID and STATION_PROBLEM_INDICATOR and no other bit, and
\* transfer_status is 0, whatever the two fields were before the activate.
C18_ActivateResetsStatus ==
  \A c \in Creps :
    (net.ev.op = "activate" /\ net.ev.crep = c /\ net.ev.ret = 0)
    => /\ PPM(net, c).data_status
            = BIT(PNET_DATA_STATUS_BIT_STATE)
              + BIT(PNET_DATA_STATUS_BIT_DATA_VALID)
              + BIT(PNET_DATA_STATUS_BIT_STATION_PROBLEM_INDICATOR)
       /\ \A b \in 0..7 :
            HasBit(PPM(net, c).data_status, b)
              <=> b \in {PNET_DATA_STATUS_BIT_STATE,
                         PNET_DATA_STATUS_BIT_DATA_VALID,
                         PNET_DATA_STATUS_BIT_STATION_PROBLEM_INDICATOR}
       /\ PPM(net, c).transfer_status = 0

\* an instance whose data_status had the REDUNDANCY and PROVIDER_STATE
\* bits and no STATE bit was activated with success
C18_Witness ==
  /\ net.ev.op = "activate"
  /\ net.ev.ret = 0
  /\ net.ev.before = <<BIT(PNET_DATA_STATUS_BIT_REDUNDANCY)
                         + BIT(PNET_DATA_STATUS_BIT_DATA_VALID)
                         + BIT(PNET_DATA_STATUS_BIT_PROVIDER_STATE), 0>>
  /\ PPM(net, net.ev.crep).data_status = 37

\* the 20 bytes from the destination address to the frame id
ExpectedHeader(n, c) ==
  LET par == n.ar.iocrs[c].param IN
  cm_initiator_mac_add \o cm_responder_mac_add
    \o htons(OS_ETHTYPE_VLAN)
    \o htons(par.iocr_tag_header.iocr_user_priority * 8192 + par.iocr_tag_header.vlan_id)
    \o htons(OS_ETHTYPE_PROFINET)
    \o htons(par.frame_id)

\* C19: from activate to close bytes 0..19 of the send buffer are the
\* initiator MAC, the responder MAC, 0x8100, (priority << 13) | VID, 0x8892
\* and the frame id: no send step and no set writes below buffer_pos; every
\* frame has these 20 bytes and the length buffer_pos + c_sdu_length + 4,
\* which is 24 + c_sdu_length.
C19_HeaderWrittenOnce ==
  \A c \in Creps :
    Running(net, c)
    => /\ Slice(PPM(net, c).p_send_buffer.payload, 0, 20) = ExpectedHeader(net, c)
       /\ PPM(net, c).buffer_pos = 20
       /\ (FrameSent(net) /\ net.ev.crep = c)
          => /\ Slice(Frame(net), 0, 20) = ExpectedHeader(net, c)
             /\ Len(Frame(net)) = PPM(net, c).buffer_pos
                                    + net.ar.iocrs[c].param.c_sdu_length + 4
             /\ Len(Frame(net)) = 24 + net.ar.iocrs[c].param.c_sdu_length

\* a frame with a data byte and an IOPS byte that a set wrote, after an
\* earlier frame
C19_Witness ==
  /\ FrameSent(net)
  /\ net.ev.crep = 1
  /\ Running(net, 1)
  /\ PPM(net, 1).trx_cnt = 2
  /\ Slice(Frame(net), 20, 2) = <<1, 1>>
  /\ Slice(Frame(net), 0, 6) = cm_initiator_mac_add
  /\ Len(Frame(net)) = 28

(***************************************************************************)
(* Properties of pf_ppm_calculate_compensated_delay.                       *)
(***************************************************************************)
\* C20: in either build the delay returned for wanted_delay and
\* stack_cycle_time > 0 is at least stack_cycle_time, and it is the delay
\* of ticks stack cycles (ticks * stack_cycle_time, or that less half a
\* cycle in the cooperative build) with ticks = 1 if wanted_delay is at
\* most 1.5 * stack_cycle_time and ticks = (wanted_delay +
\* stack_cycle_time / 2) / stack_cycle_time otherwise.
C20_DelayAtLeastOneCycle ==
  net.ev.op = "compensated_delay"
  => LET wanted_delay == net.ev.len[1]
         stack_cycle_time == net.ev.len[2]
         ticks == IF 2 * wanted_delay <= 3 * stack_cycle_time THEN 1
                  ELSE (wanted_delay + stack_cycle_time \div 2) \div stack_cycle_time
     IN /\ net.ev.ret >= stack_cycle_time
        /\ net.ev.ret = IF PNET_OS_RTOS_SUPPORTED
                        THEN ticks * stack_cycle_time
                        ELSE ticks * stack_cycle_time - stack_cycle_time \div 2

(***************************************************************************)
(* Properties of the set and get calls of the application.                 *)
(***************************************************************************)
DataOps == {"set_data", "set_iocs", "get_data", "get_iocs"}

\* what a failed set or get must leave alone: the PPM records (buffer_data,
\* the send buffer) and data_avail of every IOCR
BuffersUnchanged(n, m) == m.ar.iocrs = n.ar.iocrs

\* C8: set_data_and_iops, set_iocs, get_data_and_iops and get_iocs for a
\* sub-slot whose PPM instance is in WAIT_START return failure, write
\* PPM / INVALID_STATE to the AR and leave buffer_data, the send buffer and
\* data_avail unchanged.
C8_WrongStateRejected ==
  [][\A s \in SubslotNbrs :
       LET d == pf_ppm_get_ar_iocr_desc(s) IN
       (/\ net'.ev.op \in DataOps
        /\ net'.ev.sub = s
        /\ d.ret = 0
        /\ PPM(net, d.crep).state = PF_PPM_STATE_W_START)
       => /\ net'.ev.ret = -1
          /\ net'.ar.err_cls = PNET_ERROR_CODE_1_PPM
          /\ net'.ar.err_code = PNET_ERROR_CODE_2_PPM_INVALID_STATE
          /\ BuffersUnchanged(net, net')]_vars

\* a set is rejected after a close; the bytes set before the close are there
C8_Witness ==
  /\ net.ev.op = "set_data"
  /\ net.ev.sub = 1
  /\ net.ev.ret = -1
  /\ net.ar.err_code = PNET_ERROR_CODE_2_PPM_INVALID_STATE
  /\ PPM(net, 1).state = PF_PPM_STATE_W_START
  /\ PPM(net, 1).p_send_buffer.mem = "FREED"
  /\ PPM(net, 1).buffer_data # Zeros(4)
  /\ net.ar.iocrs[1].data_avail[1] = TRUE

\* C9: in RUN a set_data_and_iops with a data_len or iops_len that is not
\* the declared length returns failure and leaves err_cls, err_code,
\* buffer_data and data_avail unchanged; a set_iocs with a wrong iocs_len
\* does the same, but returns success (and copies nothing) when the
\* declared iocs_length is 0.
C9_LengthMismatchRejected ==
  [][\A s \in SubslotNbrs :
       LET d == pf_ppm_get_ar_iocr_desc(s) IN
       (net'.ev.sub = s /\ d.ret = 0 /\ PPM(net, d.crep).state = PF_PPM_STATE_RUN)
       => /\ (/\ net'.ev.op = "set_data"
               /\ \/ net'.ev.len[1] # IoData(d).data_length
                  \/ net'.ev.len[2] # IoData(d).iops_length)
             => /\ net'.ev.ret = -1
                /\ net'.ar.err_cls = net.ar.err_cls
                /\ net'.ar.err_code = net.ar.err_code
                /\ BuffersUnchanged(net, net')
          /\ (/\ net'.ev.op = "set_iocs"
               /\ net'.ev.len[1] # IoData(d).iocs_length)
             => /\ net'.ev.ret = (IF IoData(d).iocs_length = 0 THEN 0 ELSE -1)
                /\ net'.ar.err_cls = net.ar.err_cls
                /\ net'.ar.err_code = net.ar.err_code
                /\ BuffersUnchanged(net, net')]_vars

\* a set of sub-slot 1 failed in RUN, with bytes in buffer_data and nothing
\* written to the error fields of the AR
C9_Witness ==
  /\ net.ev.op = "set_data"
  /\ net.ev.sub = 1
  /\ net.ev.len = <<1, 0>>
  /\ net.ev.ret = -1
  /\ PPM(net, 1).state = PF_PPM_STATE_RUN
  /\ net.ar.err_code = "none"
  /\ PPM(net, 1).buffer_data # Zeros(4)

\* C10: in RUN a get_data_and_iops with capacities of at least the declared
\* lengths returns success, reports the declared lengths and returns the
\* data and IOPS bytes of the last successful set_data_and_iops of the
\* sub-slot; with a smaller capacity it fails and writes nothing for the
\* caller.  The same for get_iocs after set_iocs.
C10_RoundTrip ==
  \A s \in SubslotNbrs :
    LET d == pf_ppm_get_ar_iocr_desc(s)
        out == net.ev.out
    IN (net.ev.sub = s /\ d.ret = 0 /\ PPM(net, d.crep).state = PF_PPM_STATE_RUN)
       => /\ net.ev.op = "get_data"
             => IF /\ Len(out.data) >= IoData(d).data_length
                   /\ Len(out.iops) >= IoData(d).iops_length
                THEN /\ net.ev.ret = 0
                     /\ out.data_len = IoData(d).data_length
                     /\ out.iops_len = IoData(d).iops_length
                     /\ app.data[s].set
                          => /\ SubSeq(out.data, 1, out.data_len) = app.data[s].p_data
                             /\ SubSeq(out.iops, 1, out.iops_len) = app.data[s].p_iops
                ELSE /\ net.ev.ret = -1
                     /\ out.data = CallerBuffer(Len(out.data))
                     /\ out.iops = CallerBuffer(Len(out.iops))
                     /\ out.data_len = Len(out.data)
                     /\ out.iops_len = Len(out.iops)
          /\ net.ev.op = "get_iocs"
             => IF Len(out.iocs) >= IoData(d).iocs_length
                THEN /\ net.ev.ret = 0
                     /\ out.iocs_len = IoData(d).iocs_length
                     /\ app.iocs[s].set
                          => SubSeq(out.iocs, 1, out.iocs_len) = app.iocs[s].p_iocs
                ELSE /\ net.ev.ret = -1
                     /\ out.iocs = CallerBuffer(Len(out.iocs))
                     /\ out.iocs_len = Len(out.iocs)

\* a get returned the data byte 1 and the IOPS byte 0 that were set
C10_Witness ==
  /\ net.ev.op = "get_data"
  /\ net.ev.sub = 1
  /\ net.ev.ret = 0
  /\ app.data[1].set
  /\ app.data[1].p_data = <<1>>
  /\ app.data[1].p_iops = <<0>>
  /\ net.ev.out.data = <<1>>
  /\ net.ev.out.iops = <<0>>

(***************************************************************************)
(* Properties of the preemptive build.                                     *)
(***************************************************************************)
\* close has returned for the instance and it was not activated since
Closed(n, crep) ==
  /\ PPM(n, crep).state = PF_PPM_STATE_W_START
  /\ PPM(n, crep).p_send_buffer.mem = "FREED"

InCriticalSection(who) ==
  IF who = "main" THEN thr.main.pc \in {"set_data", "set_iops"}
  ELSE \E c \in Creps : thr.cb[c].pc = "copy"

\* C6: after close has returned, the send callback of the instance hands
\* no frame to the Ethernet driver, does not read the freed send buffer and
\* does not start the timer again.  (Stated for the last statements of a
\* callback that has left its critical section in order.)
C6_NoSendAfterClose ==
  \A c \in Creps :
    (/\ Closed(net, c)
     /\ net.ev.op = "send"
     /\ net.ev.crep = c
     /\ ~thr.cb[c].ub)
    => /\ net.ev.tx = << >>
       /\ net.ev.ub = "no"
       /\ ~Armed(net, c)

\* C7: the main thread in the copies of a set and the timer thread in the
\* payload copy of the send step are never inside their ppm_buf_lock
\* critical sections at the same time.
C7_MutualExclusion ==
  ~(InCriticalSection("main") /\ InCriticalSection("cb"))

(***************************************************************************)
(* C21: pf_ppm_set_problem_indicator(ar, true) leaves bit 5 of data_status *)
(* 0 and (ar, false) leaves it 1 in every Input CR and multicast provider  *)
(* CR of the AR; it changes no other bit of those bytes, nothing in the    *)
(* IOCRs of the other types and nothing else; a second call with the same  *)
(* argument changes nothing.                                               *)
(***************************************************************************)
OtherBitsKept(a, b, bit) == \A k \in (0..7) \ {bit} : HasBit(a, k) = HasBit(b, k)

IndicatorSet(n) == n.ev.op = "set_problem_indicator"

C21_ProblemIndicatorBit5 ==
  [][(net.ev.op = "none" /\ IndicatorSet(net')) =>
       /\ \A c \in Creps :
            IF Provides(net, c)
            THEN /\ HasBit(PPM(net', c).data_status, 5) = ~net'.ev.flag
                 /\ OtherBitsKept(PPM(net, c).data_status, PPM(net', c).data_status, 5)
                 /\ [net'.ar.iocrs[c] EXCEPT !.ppm.data_status = PPM(net, c).data_status]
                      = net.ar.iocrs[c]
            ELSE net'.ar.iocrs[c] = net.ar.iocrs[c]
       /\ [net' EXCEPT !.ev = net.ev, !.ar.iocrs = net.ar.iocrs] = net
       /\ pf_ppm_set_problem_indicator(net', net'.ev.flag) = net'
       /\ UNCHANGED <<PNET_OS_RTOS_SUPPORTED, thr, app>>]_vars

\* a problem is indicated on a running Input CR whose byte has the bits
\* 0, 2 and 1 set, next to an Output CR
C21_Witness ==
  /\ IndicatorSet(net)
  /\ net.ev.flag = TRUE
  /\ Provides(net, 1) /\ Running(net, 1)
  /\ PPM(net, 1).data_status = 7
  /\ net.ar.iocrs[2].param.iocr_type = PF_IOCR_TYPE_OUTPUT

(***************************************************************************)
(* C22: the data status setters are atomic bit mutations: when they run    *)
(* concurrently on one PPM record, the store of a setter changes only the  *)
(* bit of the setter in the byte as it is then, so that no update of       *)
(* another setter is lost.                                                 *)
(***************************************************************************)
SetterStores(t) == thr.set[t].pc = "store" /\ thr'.set[t].pc # "store"

C22_NoLostUpdate ==
  [][\A t \in SetterThreads :
       SetterStores(t) =>
         LET c == thr.set[t] IN
         OtherBitsKept(PPM(net, c.crep).data_status, PPM(net', c.crep).data_status,
                       SetterBit(c.op))]_vars

(***************************************************************************)
(* C23: for any sequence of received LLDP frames, the remote-mismatch      *)
(* path is invoked for a decoded Port ID TLV if and only if the alias      *)
(* computed from it differs from the temporary alias stored then, and      *)
(* after the TLV the temporary alias is the computed alias; a frame        *)
(* received twice in succession invokes the path at most once.             *)
(* C23_TwiceAtMostOnce states this for every frame, C23_RegularTwice for   *)
(* the frames with one Port ID TLV after the Chassis ID TLV.               *)
(***************************************************************************)
Received == net.ev.op = "none" /\ net'.ev.op = "lldp_recv"

\* the remote-mismatch path ran for the k-th Port ID TLV of the step
InvokedFor(n, k) ==
  LET p == n.ev.ports[k]
  IN  p.to > p.at /\ n.ev.calls[p.at + 1].fn = "pf_lldp_send_remote_mismatch_alarm"

PortRule(n) ==
  /\ \A k \in 1..Len(n.ev.ports) :
       /\ InvokedFor(n, k) <=> n.ev.ports[k].alias # n.ev.ports[k].temp
       /\ n.ev.ports[k].after = n.ev.ports[k].alias
  /\ MismatchCalls(n) = Cardinality({k \in 1..Len(n.ev.ports) : InvokedFor(n, k)})

ReceivedAgain == Received /\ app.rx.seen /\ app'.rx.bytes = app.rx.bytes

C23_TwiceAtMostOnce ==
  [][(Received => PortRule(net'))
     /\ (ReceivedAgain => app.rx.alarms + app'.rx.alarms <= 1)]_vars

C23_RegularTwice ==
  [][(Received => PortRule(net'))
     /\ (ReceivedAgain /\ app.rx.regular => app.rx.alarms + app'.rx.alarms <= 1)]_vars

\* a frame whose Port ID gives the alias that is stored, with an AR in use
C23_Witness ==
  /\ net.ev.op = "lldp_recv"
  /\ app.rx.regular
  /\ Len(net.ev.ports) = 1
  /\ net.ev.ports[1].alias = net.ev.ports[1].temp
  /\ net.ev.ports[1].alias = <<97, Dot, 100>>
  /\ MismatchCalls(net) = 0
  /\ \E ix \in ArIxs : net.cmrpc_ar[ix].in_use

(***************************************************************************)
(* C24: each invocation of the remote-mismatch path sends one port change  *)
(* notification to every AR in use and none to the other ARs; the          *)
(* diagnosis is APPEARS with the channel, submodule and AR diagnosis bits  *)
(* true if the temporary alias differs from the permanent alias, and       *)
(* DISAPPEARS with the three bits false if they are equal.                 *)
(***************************************************************************)
AlarmPaths == {"pf_lldp_send_remote_mismatch_alarm", "pf_lldp_send_port_datachange_alarm"}

Invocations(n, fn) == {k \in 1..Len(n.ev.calls) : n.ev.calls[k].fn = fn}

\* the calls an invocation made: those up to the next invocation
CallsOf(n, k) ==
  {j \in (k + 1)..Len(n.ev.calls) :
     \A i \in (k + 1)..j : n.ev.calls[i].fn \notin AlarmPaths}

Notifications(n, k, ix) ==
  {j \in CallsOf(n, k) :
     /\ n.ev.calls[j].fn = "pf_alarm_send_port_change_notification"
     /\ n.ev.calls[j].ar = ix}

MismatchRule(n) ==
  \A k \in Invocations(n, "pf_lldp_send_remote_mismatch_alarm") :
    LET appears == n.ev.calls[k].perm # n.ev.calls[k].temp IN
    /\ \A ix \in ArIxs :
         Cardinality(Notifications(n, k, ix)) = IF n.cmrpc_ar[ix].in_use THEN 1 ELSE 0
    /\ \A j \in CallsOf(n, k) :
         /\ n.ev.calls[j].ext = PF_WRT_ERROR_PORTID_MISMATCH
         /\ n.ev.calls[j].spec = IF appears THEN PNET_DIAG_CH_PROP_SPEC_APPEARS
                                 ELSE PNET_DIAG_CH_PROP_SPEC_DISAPPEARS
         /\ n.ev.calls[j].bits = IF appears THEN AllTrue ELSE AllFalse

C24_MismatchNotifiesArsInUse == [][Received => MismatchRule(net')]_vars

\* the alias is the permanent alias again, one AR is in use and one is not
C24_Witness ==
  /\ net.ev.op = "lldp_recv"
  /\ net.cmrpc_ar[1].in_use /\ ~net.cmrpc_ar[2].in_use
  /\ \E k \in Invocations(net, "pf_lldp_send_remote_mismatch_alarm") :
       /\ net.ev.calls[k].perm = net.ev.calls[k].temp
       /\ net.ev.calls[k].perm # << >>
       /\ Cardinality(Notifications(net, k, 1)) = 1

(***************************************************************************)
(* C25: in both alarm paths (remote mismatch, for APPEARS and for          *)
(* DISAPPEARS, and no peer detected), for every AR in use pf_diag_update   *)
(* is attempted first and pf_diag_add is called if and only if the update  *)
(* failed, never before or without a failed update.                        *)
(***************************************************************************)
AlarmStep == ~thr'.halted /\ net'.ev.op \in {"lldp_recv", "peer_timeout"}

DiagCallsOf(n, k, ix, fn) ==
  {j \in CallsOf(n, k) : n.ev.calls[j].fn = fn /\ n.ev.calls[j].ar = ix}

\* one update, and the add right after it exactly if the update failed
UpdateThenAdd(n, k, ix) ==
  \E u \in DiagCallsOf(n, k, ix, "pf_diag_update") :
    /\ DiagCallsOf(n, k, ix, "pf_diag_update") = {u}
    /\ DiagCallsOf(n, k, ix, "pf_diag_add") =
         IF n.ev.calls[u].ret # 0 THEN {u + 1} ELSE {}

\* one update and no add, whatever the update returned
UpdateOnly(n, k, ix) ==
  /\ Cardinality(DiagCallsOf(n, k, ix, "pf_diag_update")) = 1
  /\ DiagCallsOf(n, k, ix, "pf_diag_add") = {}

NoDiagCall(n, k, ix) ==
  /\ DiagCallsOf(n, k, ix, "pf_diag_update") = {}
  /\ DiagCallsOf(n, k, ix, "pf_diag_add") = {}

Disappears(n, k) ==
  /\ n.ev.calls[k].fn = "pf_lldp_send_remote_mismatch_alarm"
  /\ n.ev.calls[k].perm = n.ev.calls[k].temp

UpdateOrAddRule(n) ==
  \A k \in 1..Len(n.ev.calls), ix \in ArIxs :
    n.ev.calls[k].fn \in AlarmPaths =>
      IF n.cmrpc_ar[ix].in_use THEN UpdateThenAdd(n, k, ix) ELSE NoDiagCall(n, k, ix)

UpdateOrAddForAppearsRule(n) ==
  \A k \in 1..Len(n.ev.calls), ix \in ArIxs :
    n.ev.calls[k].fn \in AlarmPaths =>
      IF ~n.cmrpc_ar[ix].in_use THEN NoDiagCall(n, k, ix)
      ELSE IF Disappears(n, k) THEN UpdateOnly(n, k, ix)
      ELSE UpdateThenAdd(n, k, ix)

NoArInUse(n) == \A ix \in ArIxs : ~n.cmrpc_ar[ix].in_use

\* the permanent alias when invocation k has returned
PermAfter(n, k) ==
  LET later == {j \in (k + 1)..Len(n.ev.calls) : n.ev.calls[j].fn \in AlarmPaths}
  IN  IF later = {} THEN n.cmina_perm_dcp_ase.alias_name
      ELSE n.ev.calls[CHOOSE j \in later : \A i \in later : j <= i].perm

CopyRule(n) ==
  \A k \in Invocations(n, "pf_lldp_send_remote_mismatch_alarm") :
    IF NoArInUse(n)
    THEN PermAfter(n, k) = n.ev.calls[k].temp /\ CallsOf(n, k) = {}
    ELSE PermAfter(n, k) = n.ev.calls[k].perm

C26_PermanentAliasOnlyWithoutAr ==
  [][/\ AlarmStep => CopyRule(net')
     /\ net'.cmina_perm_dcp_ase.alias_name # net.cmina_perm_dcp_ase.alias_name
          => NoArInUse(net) /\ NoArInUse(net')]_vars

\* no AR is in use and the path has copied an alias that was not the permanent one
C26_Witness ==
  /\ net.ev.op = "lldp_recv"
  /\ NoArInUse(net)
  /\ \E k \in Invocations(net, "pf_lldp_send_remote_mismatch_alarm") :
       /\ net.ev.calls[k].perm # << >>
       /\ net.ev.calls[k].perm # net.ev.calls[k].temp
       /\ PermAfter(net, k) = net.ev.calls[k].temp

(***************************************************************************)
(* C27: at most one peer timer exists; every decoded TTL TLV carrying the  *)
(* value T, any 16-bit value, creates it if absent or stops and restarts   *)
(* it with a period of T seconds; the no-peer-detected alarm is raised     *)
(* only by the expiry of this timer, so that no alarm is raised while TTL  *)
(* TLVs with value T keep arriving less than T seconds apart.              *)
(***************************************************************************)
PeerTimer(n) == n.fspm_cfg.lldp_peer_cfg.peerTimer

\* the timer a frame with a TTL TLV has started runs for the TTL of the frame
PeriodRule ==
  Received /\ app'.peer.seen /\ PeerTimer(net').armed =>
    /\ PeerTimer(net').us = app'.peer.ttl * TICK_INTERVAL_SEC
    /\ PeerTimer(net').deadline = net.sec + app'.peer.ttl

\* the alarm is raised when the TTL of the last TTL TLV has passed
ExpiryRule ==
  ~thr'.halted /\ net'.ev.op = "peer_timeout" =>
    /\ PeerTimer(net).armed
    /\ app.peer.seen
    /\ net.sec >= app.peer.at + app.peer.ttl

C27_PeerTimerRunsForTtl == [][PeriodRule /\ ExpiryRule]_vars

(***************************************************************************)
(* C28: on the expiry of the peer timer, for every AR in use whose         *)
(* expected configuration contains the submodule (DAP slot, interface 1    *)
(* port 0 subslot), at whatever module index and however many ARs are in   *)
(* use, a diagnosis APPEARS / NO_PEER_DETECTED is updated or added and one *)
(* port change notification is sent; the ARs without that submodule and    *)
(* the ARs not in use receive none.                                        *)
(***************************************************************************)
HasPortSubmodule(ar) ==
  \E i \in 1..Len(ar.exp_modules) : ModuleMatches(ar.exp_modules[i])

NoPeerCalls(n, k, ix) ==
  \A j \in CallsOf(n, k) :
    n.ev.calls[j].ar = ix =>
      /\ n.ev.calls[j].spec = PNET_DIAG_CH_PROP_SPEC_APPEARS
      /\ n.ev.calls[j].ext = PF_WRT_ERROR_NO_PEER_DETECTED

NoPeerRule(n) ==
  \A k \in Invocations(n, "pf_lldp_send_port_datachange_alarm"), ix \in ArIxs :
    IF n.cmrpc_ar[ix].in_use /\ HasPortSubmodule(n.cmrpc_ar[ix])
    THEN /\ UpdateThenAdd(n, k, ix)
         /\ Cardinality(Notifications(n, k, ix)) = 1
         /\ NoPeerCalls(n, k, ix)
    ELSE /\ NoDiagCall(n, k, ix)
         /\ Notifications(n, k, ix) = {}

C28_NoPeerForEveryArWithPort ==
  [][~thr'.halted /\ net'.ev.op = "peer_timeout" => NoPeerRule(net')]_vars

(***************************************************************************)
(* C29: on each tick of the broadcast timer, if not_send_LLDP_Frames is    *)
(* clear, one LLDP frame is built and handed to the driver and the timer   *)
(* is started again; if it is set, no frame is transmitted, no interface   *)
(* counter changes and the timer is not started again but gets its exit    *)
(* flag, so that it transmits no frame afterwards unless                   *)
(* pf_lldp_start_broadcast is called again.  pf_lldp_send called directly  *)
(* while the flag is set transmits nothing either.                         *)
(***************************************************************************)
TickStep == ~thr'.halted /\ net.ev.op = "none" /\ net'.ev.op = "lldp_timer_cb"
SendStep == ~thr'.halted /\ net.ev.op = "none" /\ net'.ev.op = "lldp_send"

CountersKept == net'.interface_statistics = net.interface_statistics

OneFrameSent ==
  /\ Len(net'.ev.tx) = 1
  /\ net'.ev.tx[1].frame = lldp_frame(net)
  /\ net'.interface_statistics.ifOutErrors + net'.interface_statistics.ifOutOctects
       = net.interface_statistics.ifOutErrors + net.interface_statistics.ifOutOctects + 1

NothingSent == net'.ev.tx = << >> /\ CountersKept

\* what the claim says of a tick and of a direct call with the flag set
SuppressionRule ==
  /\ TickStep /\ NotSend(net) =>
       NothingSent /\ BroadcastTimer(net').exit /\ ~BroadcastRuns(net')
  /\ SendStep /\ NotSend(net) => NothingSent
  /\ TickStep => BroadcastRuns(net)
  /\ BroadcastTimer(net).exit /\ ~BroadcastTimer(net').exit =>
       net'.ev.op = "lldp_start_broadcast"

C29_TickSendsOneFrame ==
  [][/\ TickStep /\ ~NotSend(net) => OneFrameSent /\ BroadcastRuns(net')
     /\ SuppressionRule]_vars

\* as it is: the frame is sent if os_buf_alloc gave a buffer
C29_TickSendsOneFrameIfAllocated ==
  [][/\ TickStep /\ ~NotSend(net) =>
          /\ BroadcastRuns(net')
          /\ IF net'.ev.alloc = "ok" THEN OneFrameSent ELSE NothingSent
     /\ SuppressionRule]_vars

\* a tick with the flag set, after a frame was sent
C29_Witness ==
  /\ net.ev.op = "lldp_timer_cb"
  /\ NotSend(net)
  /\ BroadcastTimer(net).exit
  /\ net.ev.tx = << >>
  /\ net.interface_statistics.ifOutOctects >= 1

(***************************************************************************)
(* C30: every frame lldp_send builds is, in this order, the destination    *)
(* MAC 01:80:C2:00:00:0E, the MAC of the device as source, the EtherType   *)
(* 0x88CC, the Chassis ID TLV (type 1), the Port ID TLV (type 2, subtype   *)
(* 7), the TTL TLV (type 3, 16 bits big-endian), the PROFINET port status  *)
(* TLV, the PROFINET chassis MAC TLV, the IEEE MAC/PHY TLV, the management *)
(* TLV with the current IP and the End TLV (type 0, length 0); the Chassis *)
(* ID TLV has subtype 4 and the MAC of the device if the configured        *)
(* chassis_id is empty, else subtype 7 and the configured name; the length *)
(* each TLV header declares is the number of payload bytes written.        *)
(***************************************************************************)
\* the TLVs of a frame from offset pos, read by the lengths their headers declare
RECURSIVE ParseTlvs(_, _)
ParseTlvs(frame, pos) ==
  IF pos + 2 > Len(frame) THEN <<[type |-> -1, payload |-> << >>, end |-> pos]>>
  ELSE LET type == GetUint16(frame, pos) \div 512
           len == GetUint16(frame, pos) % 512
       IN  IF pos + 2 + len > Len(frame)
           THEN <<[type |-> -1, payload |-> << >>, end |-> pos]>>
           ELSE <<[type |-> type, payload |-> Slice(frame, pos + 2, len),
                   end |-> pos + 2 + len]>>
                \o (IF type = LLDP_TYPE_END THEN << >>
                    ELSE ParseTlvs(frame, pos + 2 + len))

FrameRule(n, frame) ==
  LET t == ParseTlvs(frame, 14)
      cfg == n.fspm_cfg.lldp_cfg
      mac == n.fspm_cfg.eth_addr
  IN  /\ Slice(frame, 0, 6) = <<1, 128, 194, 0, 0, 14>>
      /\ Slice(frame, 6, 6) = mac
      /\ Slice(frame, 12, 2) = <<136, 204>>
      /\ [i \in 1..Len(t) |-> t[i].type] = <<1, 2, 3, 127, 127, 127, 8, 0>>
      /\ t[1].payload = IF cfg.chassis_id = << >> THEN <<4>> \o mac
                        ELSE <<7>> \o cfg.chassis_id
      /\ t[2].payload = <<7>> \o cfg.port_id
      /\ t[3].payload = <<cfg.ttl \div 256, cfg.ttl % 256>>
      /\ t[4].payload = <<0, 14, 207, 2>> \o htons(cfg.rtclass_2_status)
                        \o htons(cfg.rtclass_3_status)
      /\ t[5].payload = <<0, 14, 207, 5>> \o mac
      /\ t[6].payload = <<0, 18, 15, 1, cfg.cap_aneg>> \o htons(cfg.cap_phy)
                        \o htons(cfg.mau_type)
      /\ Len(t[7].payload) = 12
      /\ Slice(t[7].payload, 0, 2) = <<5, 1>>
      /\ Slice(t[7].payload, 2, 4) = put_uint32(n.ipaddr)
      /\ t[8].payload = << >>
      /\ t[8].end = Len(frame)

C30_FrameLayout ==
  net.ev.op \in {"lldp_send", "lldp_timer_cb"} =>
    \A i \in 1..Len(net.ev.tx) : FrameRule(net, net.ev.tx[i].frame)

\* a frame with the chassis name, a TTL that takes two bytes and an IP address
C30_Witness ==
  /\ net.ev.op \in {"lldp_send", "lldp_timer_cb"}
  /\ Len(net.ev.tx) = 1
  /\ net.fspm_cfg.lldp_cfg.chassis_id # << >>
  /\ net.fspm_cfg.lldp_cfg.ttl > 255
  /\ net.ipaddr # 0

(***************************************************************************)
(* C31: for every decoded Port ID TLV the computed alias is the Port ID    *)
(* itself if the Port ID contains a '.', and otherwise the Port ID, a '.'  *)
(* and the chassis ID of the peer, decoded from the same frame; after any  *)
(* sequence of received frames the temporary alias follows one of the two  *)
(* rules for the Port ID decoded last.                                     *)
(***************************************************************************)
AliasOf(port, chassis) ==
  IF HasDot(port) THEN port ELSE port \o <<Dot>> \o chassis

C31_AliasFollowsRule ==
  net.ev.op = "lldp_recv" =>
    /\ \A k \in 1..Len(net.ev.ports) :
         net.ev.ports[k].alias = AliasOf(net.ev.ports[k].port, net.ev.ports[k].chassis)
    /\ net.ev.ports # << >> =>
         LET last == net.ev.ports[Len(net.ev.ports)]
         IN  net.cmina_temp_dcp_ase.alias_name = AliasOf(last.port, last.chassis)

(***************************************************************************)
(* C32: decoding with pf_lldp_recv the frame pf_lldp_send encodes gives    *)
(* the fields that were encoded: for every 16-bit TTL the TTL of the peer  *)
(* record, and the period of the peer timer, is the TTL encoded; the       *)
(* chassis ID, port ID, port status and chassis MAC decoded are the ones   *)
(* encoded.                                                                *)
(***************************************************************************)
Decoded == net.ev.op = "lldp_recv" /\ app.rx.seen /\ app.rx.bytes = lldp_frame(net)

C32_RoundTrip ==
  Decoded =>
    LET peer == net.fspm_cfg.lldp_peer_cfg
        cfg == net.fspm_cfg.lldp_cfg
    IN  /\ peer.TTL = cfg.ttl
        /\ peer.peerTimer.handle # NULL => peer.peerTimer.us = cfg.ttl * TICK_INTERVAL_SEC
        /\ peer.PeerChassisID = IF cfg.chassis_id = << >> THEN net.fspm_cfg.eth_addr
                                 ELSE cfg.chassis_id
        /\ peer.PeerPortID = cfg.port_id
        /\ peer.PeerPortStatus = htons(cfg.rtclass_2_status) \o htons(cfg.rtclass_3_status)
        /\ peer.PeerMACAddr = net.fspm_cfg.eth_addr

(***************************************************************************)
(* C33: a send step entered with ci_running false does nothing: no frame,  *)
(* no re-arm, and every field of the PPM (ci_timer, cycle, trx_cnt and     *)
(* first_transmit among them, and the send buffer), the error fields of    *)
(* the AR and the interface counters are as before the step.               *)
(***************************************************************************)
StoppedSendOf(c) ==
  /\ thr.cb[c].pc = "idle"
  /\ ~thr'.halted
  /\ thr'.main = thr.main
  /\ thr'.ctl = thr.ctl
  /\ net'.ev.op = "send_entry"
  /\ net'.ev.crep = c
  /\ PPM(net, c).ci_running = FALSE

StoppedSendSilent(c) ==
  /\ thr'.cb[c].pc = "idle"
  /\ net'.ev.tx = << >>
  /\ net'.ev.rearm = NoEv.rearm
  /\ net'.ev.state_ind = 0
  /\ net'.ev.error_ind = 0
  /\ net'.timer[c] = net.timer[c]
  /\ net'.interface_statistics = net.interface_statistics
  /\ [net'.ar EXCEPT !.iocrs = net.ar.iocrs] = net.ar

C33_StoppedSendKeepsPpm ==
  [][\A c \in Creps : StoppedSendOf(c) =>
        StoppedSendSilent(c) /\ PPM(net', c) = PPM(net, c)]_vars

\* the same, the handle ci_timer left aside: line 1249 gives it UINT32_MAX
\* before line 1250 reads ci_running
C33_StoppedSendKeepsPpmButHandle ==
  [][\A c \in Creps : StoppedSendOf(c) =>
        /\ StoppedSendSilent(c)
        /\ PPM(net', c) = [PPM(net, c) EXCEPT !.ci_timer = UINT32_MAX]]_vars

\* the callback of a stopped instance has run and has changed ci_timer
C33_Witness ==
  /\ net.ev.op = "send_entry"
  /\ ~thr.halted
  /\ thr.cb[net.ev.crep].pc = "idle"
  /\ thr.ctl[net.ev.crep].pc = "close_timer"
  /\ PPM(net, net.ev.crep).ci_running = FALSE
  /\ PPM(net, net.ev.crep).ci_timer = UINT32_MAX

(***************************************************************************)
(* C34: under every interleaving of concurrent activate and close calls on *)
(* distinct PPM instances the mutex is created once for each change of the *)
(* instance count from 0 to 1 and destroyed once for each change from 1 to *)
(* 0: no mutex is leaked, none is destroyed twice, and when no call is in  *)
(* progress ppm_buf_lock exists iff the instance count is above 0.         *)
(***************************************************************************)
Quiescent == \A c \in Creps : thr.ctl[c].pc = "idle"

NoMutexLeaked == thr.mtx.live \subseteq {net.ppm_buf_lock}

NoMutexDestroyedTwice ==
  net.ev.ub \notin {"mutex_destroy_null", "mutex_destroy_locked"}

C34_MutexFollowsCount ==
  /\ NoMutexLeaked
  /\ NoMutexDestroyedTwice
  /\ Quiescent =>
       /\ LockExists(net) <=> net.ppm_instance_cnt > 0
       /\ thr.mtx.created - thr.mtx.destroyed = Cardinality(thr.mtx.live)

(***************************************************************************)
(* C35: ppm_buf_lock is never locked or unlocked while it does not exist,  *)
(* in every interleaving of activate, close, set and the send callbacks.   *)
(***************************************************************************)
C35_LockOnlyWhileExists ==
  net.ev.ub \notin {"mutex_lock_null", "mutex_unlock_null", "assert_lock_null"}

(***************************************************************************)
(* C36: the no-peer path appends to the diff arrays: it writes its entry   *)
(* at the indices nbr_api_diffs, nbr_module_diffs, nbr_submodule_diffs and *)
(* increments these counters after the write, so that the entry written is *)
(* counted and a second expiry does not write the same entry again.        *)
(***************************************************************************)
DiffCounted(ar) ==
  /\ ar.diff.at[1] < ar.nbr_api_diffs
  /\ ar.diff.at[2] < ar.nbr_module_diffs
  /\ ar.diff.at[3] < ar.nbr_submodule_diffs

C36_DiffEntryAppended ==
  \A ix \in ArIxs :
    net.cmrpc_ar[ix].diff.set =>
      DiffCounted(net.cmrpc_ar[ix]) /\ net.cmrpc_ar[ix].diff.writes = 1

(***************************************************************************)
(* C37: a DISAPPEARS notification of the port-ID mismatch is sent to an AR *)
(* only if an APPEARS notification of it was sent to that AR earlier and   *)
(* has not been cleared by a DISAPPEARS since.                             *)
(***************************************************************************)
MismatchNotes(n, ix) ==
  {j \in 1..Len(n.ev.calls) :
     /\ n.ev.calls[j].fn = "pf_alarm_send_port_change_notification"
     /\ n.ev.calls[j].ar = ix
     /\ n.ev.calls[j].ext = PF_WRT_ERROR_PORTID_MISMATCH}

\* before call j of the step: the notification sent last to the AR, in the
\* step or, by the record of the diagnosis store, before the step
AppearsPending(before, n, ix, j) ==
  LET earlier == {i \in MismatchNotes(n, ix) : i < j} IN
  IF earlier = {}
  THEN before.cmrpc_ar[ix].in_use
       /\ before.cmrpc_ar[ix].diag[PF_WRT_ERROR_PORTID_MISMATCH]
            = PNET_DIAG_CH_PROP_SPEC_APPEARS
  ELSE \E i \in earlier :
         /\ \A k \in earlier : k <= i
         /\ n.ev.calls[i].spec = PNET_DIAG_CH_PROP_SPEC_APPEARS

C37_DisappearsOnlyAfterAppears ==
  [][AlarmStep =>
       \A ix \in ArIxs : \A j \in MismatchNotes(net', ix) :
         net'.ev.calls[j].spec = PNET_DIAG_CH_PROP_SPEC_DISAPPEARS
           => AppearsPending(net, net', ix, j)]_vars

(***************************************************************************)
(* C38: for every received frame, of any length and content (no End TLV,   *)
(* TLVs of length 0, lengths that go past the end of the frame),           *)
(* pf_lldp_recv ends without a read at or after the end of the frame and   *)
(* without a copy of more bytes than its destination holds, and it leaves  *)
(* the peer record as it is for a TLV of a type it does not know.          *)
(***************************************************************************)
RecvInsideFrame == net.ev.op = "lldp_recv" => net.ev.ub = "no"

C38_RecvStaysInsideFrame == RecvInsideFrame

(***************************************************************************)
(* C39: for every send_clock_factor of 1..128 and reduction_ratio of       *)
(* 1..16384 the 16-bit ratio that pf_ppm_finish_buffer uses as its modulus *)
(* is the product of the two, not truncated, and is not 0.                 *)
(***************************************************************************)
InClaimedRange(p) ==
  p.send_clock_factor \in 1..128 /\ p.reduction_ratio \in 1..16384

C39_RatioIsProduct ==
  \A c \in Creps :
    (Running(net, c) /\ InClaimedRange(PPM(net, c))) =>
      LET ratio == finish_ratio(PPM(net, c).send_clock_factor,
                                PPM(net, c).reduction_ratio)
      IN  /\ ratio = PPM(net, c).send_clock_factor * PPM(net, c).reduction_ratio
          /\ ratio # 0

(***************************************************************************)
(* C40: while a PPM instance is in RUN, every frame is taken by the driver *)
(* and every re-arm succeeds, and the timer fires fairly, then until the   *)
(* close frames are emitted again and again, each expiry of the timer      *)
(* giving one frame and one re-arm, and every value written by a completed *)
(* set_data_and_iops appears in a frame that is emitted later.             *)
(***************************************************************************)
FramesOut(n) == n.interface_statistics.ifOutOctects

\* the last completed set of sub-slot 1 wrote the data byte v
DataIs(v) ==
  /\ Running(net, 1)
  /\ app.data[1].set
  /\ app.data[1].p_data = <<v>>

\* the last step emitted a frame of IOCR 1 with the data byte v
FrameWithData(v) ==
  /\ FrameSent(net)
  /\ net.ev.crep = 1
  /\ Slice(Frame(net), PPM(net, 1).buffer_pos + data_desc(1)[1].data_offset, 1) = <<v>>

\* each expiry of the timer of an instance in RUN: pf_ppm_send runs, with
\* one frame and one re-arm
ExpiryGivesOneFrame ==
  [][(net'.ev.op = "send" /\ Running(net, 1)) =>
       LET sent == pf_ppm_send(TimerExpires(Call(net, "send", 1, 0), 1), 1,
                               net'.now, TRUE, TRUE)
       IN
       /\ net' = StatsWindow(sent)
       /\ Len(net'.ev.tx) = 1
       /\ net'.ev.tx[1].ok
       /\ FramesOut(sent) = FramesOut(net) + 1
       /\ net'.ev.rearm = "ok"
       /\ Armed(net', 1)]_vars

\* after every frame the next frame is emitted, unless the instance is closed
FramesGoOn ==
  \A k \in 0..MaxCount :
    (Running(net, 1) /\ FramesOut(net) = k) ~> (FramesOut(net) # k \/ ~Running(net, 1))

C40_EveryValueIsEmitted ==
  /\ ExpiryGivesOneFrame
  /\ FramesGoOn
  /\ \A v \in Bytes :
       DataIs(v) ~> (FrameWithData(v) \/ ~Running(net, 1))

\* the same for the value that no later set has replaced before the frame
C40_LastValueIsEmitted ==
  /\ ExpiryGivesOneFrame
  /\ FramesGoOn
  /\ \A v \in Bytes :
       DataIs(v) ~> (FrameWithData(v) \/ ~Running(net, 1) \/ ~DataIs(v))

\* the second frame of a run carries the value set after the first frame
C40_Witness ==
  /\ FrameWithData(MaxByte)
  /\ FramesOut(net) = 2
  /\ Running(net, 1)
  /\ Armed(net, 1)
  /\ app.data[1].p_data = <<MaxByte>>

====
